---- MODULE Spec2Model ----
(***************************************************************************)
(* zClip: the project store (clips, operations, history), the overlap      *)
(* resolver and time model it relies on, the player's store-facing         *)
(* callbacks, and the main-process export service.                         *)
(*                                                                         *)
(* Time is counted in ticks of 0.0001 s, the epsilon the store compares    *)
(* with, so that every constant of the source is a whole number of ticks.  *)
(***************************************************************************)
EXTENDS Integers, Sequences, FiniteSets, TLC

\* ------------------------------------------------------------------ bounds
MaxHistory == 3
MaxId == 9
MaxTime == 12000
MaxJobs == 3

\* ------------------------------------------------------- program constants
OVERLAP_EPS == 1
OVERLAP_MIN_DURATION == 100
MIN_VISIBLE == 500
SPLIT_MARGIN == 100
CLAMP_EPS == 1
MAX_TRACKS == 8
InitTrackCount == 2
BOUNDARY_EPSILON == 5

NoId == 0

\* --------------------------------------------------------------- utilities
Min2(a, b) == IF a <= b THEN a ELSE b
Max2(a, b) == IF a >= b THEN a ELSE b
Abs(a) == IF a < 0 THEN 0 - a ELSE a

RECURSIVE SeqFilter(_, _)
SeqFilter(s, keep) ==
    IF s = <<>> THEN <<>>
    ELSE IF Head(s) \in keep THEN <<Head(s)>> \o SeqFilter(Tail(s), keep)
    ELSE SeqFilter(Tail(s), keep)

SeqToSet(s) == {s[i] : i \in 1..Len(s)}

ClipIds(cs) == {cs[i].id : i \in 1..Len(cs)}

\* clips.filter(pred) where pred is given as the set of ids to keep
FilterClips(cs, ids) == SelectSeq(cs, LAMBDA c : c.id \in ids)

\* clips.find((c) => c.id === id); NoClip when absent
NoClip == [id |-> NoId]
FindClip(cs, id) ==
    IF id \in ClipIds(cs)
    THEN cs[CHOOSE i \in 1..Len(cs) : cs[i].id = id /\ \A j \in 1..(i-1) : cs[j].id # id]
    ELSE NoClip

\* linkedGroups[groupId] !== false
IsLinked(lg, g) == IF g \in DOMAIN lg THEN lg[g] ELSE TRUE

\* --------------------------------------------------------- operation lists
createDefaultOperations(duration) ==
    << [type |-> "trim",   enabled |-> TRUE,  params |-> [startTime |-> 0, endTime |-> duration]],
       [type |-> "speed",  enabled |-> FALSE, params |-> [rate |-> 1]],
       [type |-> "volume", enabled |-> FALSE, params |-> [percent |-> 100]],
       [type |-> "pitch",  enabled |-> FALSE, params |-> [percent |-> 100]] >>

\* operations.find((op) => op.type === t [&& op.enabled]); index 0 when absent
FindOpIdx(ops, t, needEnabled) ==
    LET hits == {i \in 1..Len(ops) : ops[i].type = t /\ (needEnabled => ops[i].enabled)}
    IN IF hits = {} THEN 0 ELSE CHOOSE i \in hits : \A j \in hits : i <= j

\* operationsByClip?.[clip.id] || []
OpsOrEmpty(obc, id) == IF id \in DOMAIN obc THEN obc[id] ELSE <<>>

\* operationsByClip[id] || createDefaultOperations(duration)
OpsOrDefault(obc, id, duration) ==
    IF id \in DOMAIN obc THEN obc[id] ELSE createDefaultOperations(duration)

\* ------------------------------------------------------------- time model
\* With(v, Op) is Op(v): a value computed once and used several times
With(v, Op(_)) == Op(v)

getTrimParams(duration, ops) ==
    With(FindOpIdx(ops, "trim", TRUE), LAMBDA i :
        IF i = 0 THEN [trimStart |-> 0, trimEnd |-> duration]
        ELSE With(Max2(0, Min2(ops[i].params.startTime, duration)), LAMBDA ts :
                 [trimStart |-> ts, trimEnd |-> Max2(ts, Min2(ops[i].params.endTime, duration))]))

getSpeedRate(ops) ==
    With(FindOpIdx(ops, "speed", TRUE), LAMBDA i :
        IF i # 0 /\ ops[i].params.rate > 0 THEN ops[i].params.rate ELSE 1)

\* trim bounds that span the whole media whatever bound the clip stores
WholeMediaBounds(clip) == [min |-> 0, max |-> Max2(0, clip.duration)]

getClipTrimBounds(clip) ==
    With(Max2(0, Min2(clip.trimBoundStart, clip.duration)), LAMBDA mn :
        [min |-> mn, max |-> Max2(mn, Min2(clip.trimBoundEnd, clip.duration))])

\* the range once the clamped trim and the speed rate are known
RangeOf(clip, trimStart, trimEnd, speedRate) ==
    With(Max2(0, trimEnd - trimStart) \div speedRate, LAMBDA visibleDuration :
        [trimStart |-> trimStart, trimEnd |-> trimEnd, speedRate |-> speedRate,
         visibleDuration |-> visibleDuration,
         start |-> clip.startTime, end |-> clip.startTime + visibleDuration])

\* trimStart/trimEnd of the raw trim clamped into the clip's trim bound
ClampedRange(clip, raw, bound, speedRate) ==
    With(Max2(bound.min, Min2(raw.trimStart, bound.max)), LAMBDA trimStart :
        RangeOf(clip, trimStart, Max2(trimStart, Min2(raw.trimEnd, bound.max)), speedRate))

getClipTimelineRange(clip, obc) ==
    With(OpsOrEmpty(obc, clip.id), LAMBDA ops :
        ClampedRange(clip, getTrimParams(clip.duration, ops), getClipTrimBounds(clip),
                     getSpeedRate(ops)))

getClipVisibleDuration(clip, obc) == getClipTimelineRange(clip, obc).visibleDuration

getClipTrimValues(clip, obc) ==
    With(getClipTimelineRange(clip, obc), LAMBDA r :
        [trimStart |-> r.trimStart, trimEnd |-> r.trimEnd])

timelineTimeToMediaTime(clip, obc, t) ==
    With(getClipTimelineRange(clip, obc), LAMBDA r :
        Min2(r.trimEnd, Max2(r.trimStart, r.trimStart + (t - r.start) * r.speedRate)))

\* a conversion back to timeline time that takes every clip to play at unit speed
MediaTimeAtUnitSpeed(clip, obc, m) ==
    With(getClipTimelineRange(clip, obc), LAMBDA r :
        r.start + (Min2(r.trimEnd, Max2(r.trimStart, m)) - r.trimStart))

mediaTimeToTimelineTime(clip, obc, m) ==
    With(getClipTimelineRange(clip, obc), LAMBDA r :
        r.start + (Min2(r.trimEnd, Max2(r.trimStart, m)) - r.trimStart) \div r.speedRate)

RECURSIVE getTimelineDuration(_, _)
getTimelineDuration(cs, obc) ==
    IF cs = <<>> THEN 0
    ELSE Max2(getTimelineDuration(Tail(cs), obc),
              Head(cs).startTime + getClipVisibleDuration(Head(cs), obc))

clampTimelineTime(time, timelineDur) ==
    IF timelineDur <= 0 THEN 0 ELSE Max2(0, Min2(time, timelineDur - CLAMP_EPS))

\* The divisions of the time model are exact on the states the model visits:
\* every stored trim length is a multiple of the clip's speed rate.
ExactRange(r) == (r.trimEnd - r.trimStart) % r.speedRate = 0

ExactOps(cs, obc) ==
    \A i \in 1..Len(cs) : ExactRange(getClipTimelineRange(cs[i], obc))

\* ------------------------------------------------------- overlap resolver
\* overlap entries that take each clip's startTime as stored, negative or not
OverlapEntriesUnclamped(cs, obc, activeClipIds, lg) ==
    [i \in 1..Len(cs) |->
        LET clip == cs[i]
            duration == Max2(OVERLAP_MIN_DURATION, getClipVisibleDuration(clip, obc))
        IN [id |-> clip.id, track |-> clip.track, trackIndex |-> clip.trackIndex,
            groupId |-> clip.groupId, linked |-> IsLinked(lg, clip.groupId),
            originalStart |-> clip.startTime, start |-> clip.startTime, duration |-> duration,
            end |-> clip.startTime + duration, active |-> clip.id \in activeClipIds]]

buildOverlapEntries(cs, obc, activeClipIds, lg) ==
    [i \in 1..Len(cs) |->
        LET clip == cs[i]
            duration == Max2(OVERLAP_MIN_DURATION, getClipVisibleDuration(clip, obc))
            start == Max2(0, clip.startTime)
        IN [id |-> clip.id, track |-> clip.track, trackIndex |-> clip.trackIndex,
            groupId |-> clip.groupId, linked |-> IsLinked(lg, clip.groupId),
            originalStart |-> start, start |-> start, duration |-> duration,
            end |-> start + duration, active |-> clip.id \in activeClipIds]]

moveEntryRight(entry, targetStart) ==
    [entry EXCEPT !.start = Max2(0, targetStart),
                  !.end = Max2(0, targetStart) + entry.duration]

\* returns the entry (moved or not) and whether the move happened
moveEntryLeft(entry, targetStart) ==
    LET raw == targetStart - entry.duration
        nextStart == IF raw < 0 THEN 0 ELSE raw
    IN IF raw < 0 /\ nextStart + entry.duration > targetStart + OVERLAP_EPS
       THEN [moved |-> FALSE, entry |-> entry]
       ELSE [moved |-> TRUE,
             entry |-> [entry EXCEPT !.start = nextStart, !.end = nextStart + entry.duration]]

\* entries.sort by (start, id)
EntryBefore(a, b) == IF a.start # b.start THEN a.start < b.start ELSE a.id < b.id

RECURSIVE InsertEntry(_, _)
InsertEntry(sorted, e) ==
    IF sorted = <<>> THEN <<e>>
    ELSE IF EntryBefore(e, Head(sorted)) THEN <<e>> \o sorted
    ELSE <<Head(sorted)>> \o InsertEntry(Tail(sorted), e)

RECURSIVE SortEntries(_)
SortEntries(es) ==
    IF es = <<>> THEN <<>> ELSE InsertEntry(SortEntries(Tail(es)), Head(es))

\* one for-loop of resolveTrackOverlaps, from index i on
RECURSIVE ScanPass(_, _, _)
ScanPass(es, i, changed) ==
    IF i >= Len(es) THEN [entries |-> es, changed |-> changed]
    ELSE LET current == es[i]
             next == es[i + 1]
         IN IF current.end <= next.start + OVERLAP_EPS
            THEN ScanPass(es, i + 1, changed)
            ELSE IF current.active /\ ~next.active
            THEN ScanPass([es EXCEPT ![i + 1] = moveEntryRight(next, current.end)], i + 1, TRUE)
            ELSE IF ~current.active /\ next.active
            THEN LET m == moveEntryLeft(current, next.start)
                 IN IF m.moved
                    THEN ScanPass([es EXCEPT ![i] = m.entry], i + 1, TRUE)
                    ELSE ScanPass([es EXCEPT ![i + 1] = moveEntryRight(next, current.end)], i + 1, TRUE)
            ELSE ScanPass([es EXCEPT ![i + 1] = moveEntryRight(next, current.end)], i + 1, TRUE)

\* the while loop: capped is TRUE when the loop left because guard ran out
RECURSIVE ResolveLoop(_, _, _)
ResolveLoop(es, guard, changed) ==
    IF ~(changed /\ guard > 0) THEN [entries |-> es, capped |-> changed]
    ELSE LET pass == ScanPass(SortEntries(es), 1, FALSE)
         IN ResolveLoop(pass.entries, guard - 1, pass.changed)

resolveTrackOverlaps(es) ==
    IF Len(es) <= 1 THEN [entries |-> es, capped |-> FALSE]
    ELSE ResolveLoop(es, Len(es) * Len(es) + 8, TRUE)

LaneOf(e) == <<e.track, e.trackIndex>>

\* entriesByTrack.forEach((group) => resolveTrackOverlaps(group))
ResolveLanes(entries) ==
    LET lanes == {LaneOf(entries[i]) : i \in 1..Len(entries)}
        res == [k \in lanes |-> resolveTrackOverlaps(SelectSeq(entries, LAMBDA e : LaneOf(e) = k))]
        pick(e) == LET r == res[LaneOf(e)].entries
                   IN r[CHOOSE j \in 1..Len(r) : r[j].id = e.id]
    IN [entries |-> [i \in 1..Len(entries) |-> pick(entries[i])],
        capped |-> \E k \in lanes : res[k].capped]

\* groupEntriesMap.forEach: shift every member of a linked group by the delta
\* of its first moved member
PropagateGroups(entries) ==
    LET idx == 1..Len(entries)
        movedIdx(g) == {i \in idx : entries[i].linked /\ entries[i].groupId = g
                                    /\ Abs(entries[i].start - entries[i].originalStart) > OVERLAP_EPS}
        hasMoved(g) == movedIdx(g) # {}
        refOf(g) == entries[CHOOSE i \in movedIdx(g) : \A j \in movedIdx(g) : i <= j]
        deltaOf(g) == refOf(g).start - refOf(g).originalStart
        shifted(e) == LET s == Max2(0, e.originalStart + deltaOf(e.groupId))
                      IN [e EXCEPT !.start = s, !.end = s + e.duration]
    IN [entries |-> [i \in idx |->
                        IF entries[i].linked /\ hasMoved(entries[i].groupId)
                        THEN shifted(entries[i]) ELSE entries[i]],
        linkedMovedIds |-> {entries[i].id : i \in {j \in idx :
                                entries[j].linked /\ hasMoved(entries[j].groupId)}}]

\* the entries and the result clips once both passes are done
ResolveResult(cs, first, second) ==
    [entries |-> second.entries,
     capped |-> first.capped \/ second.capped,
     clips |-> [i \in 1..Len(cs) |-> [cs[i] EXCEPT !.startTime = second.entries[i].start]]]

\* entry.active = reinforcedActiveIds.has(entry.id)
Reinforce(entries, reinforcedActiveIds) ==
    [i \in 1..Len(entries) |->
        [entries[i] EXCEPT !.active = (entries[i].id \in reinforcedActiveIds)]]

\* if (linkedMovedIds.size > 0) { ... second resolveTrackOverlaps round ... }
ResolveSecond(cs, activeClipIds, first, prop) ==
    ResolveResult(cs, first,
        IF prop.linkedMovedIds # {}
        THEN ResolveLanes(Reinforce(prop.entries, activeClipIds \cup prop.linkedMovedIds))
        ELSE [entries |-> prop.entries, capped |-> FALSE])

ResolveFirst(cs, activeClipIds, first) ==
    ResolveSecond(cs, activeClipIds, first, PropagateGroups(first.entries))

\* the whole resolver, with the facts later properties ask about
ResolveDetail(cs, obc, activeClipIds, lg) ==
    ResolveFirst(cs, activeClipIds,
                 ResolveLanes(buildOverlapEntries(cs, obc, activeClipIds, lg)))

resolveClipOverlaps(cs, obc, activeClipIds, lg) ==
    ResolveDetail(cs, obc, activeClipIds, lg).clips

\* ------------------------------------------------------------------ state
VARIABLES
    clips,              \* TimelineClip[]
    operationsByClip,   \* clip id -> MediaOperation[]
    operations,         \* operation list of the selected clip
    selectedClipId, selectedClipIds, lastSelectedClipId,
    linkedGroups,       \* group id -> boolean
    clipboard,
    historyPast, historyFuture,
    timelineDuration, videoTrackCount, audioTrackCount,
    currentTime, playing,
    nextId,             \* uid(): the next fresh identifier
    importJob,          \* loadFiles between its get() and its set()
    mergeJob,           \* mergeSelectedClips between its get() and its last set()
    lastCmd,            \* the command that produced the state
    exportJobs,         \* main process: EXPORT_START requests in flight or answered
    currentExportProcess,
    lockedSnapTime,     \* useSnap: the snap point the drag is held on, or Undef
    snapLineTime,       \* useSnap: the visible snap line, or Undef
    snapResult,         \* the SnapResult of the last snap check and its arguments
    engineInput,        \* main process: the arguments of the last filter-graph build
    engineOutput        \* main process: what that build returned

storeVars == <<clips, operationsByClip, operations, selectedClipId, selectedClipIds,
               lastSelectedClipId, linkedGroups, clipboard, historyPast, historyFuture,
               timelineDuration, videoTrackCount, audioTrackCount, currentTime, playing>>
exportVars == <<exportJobs, currentExportProcess>>
snapVars == <<lockedSnapTime, snapLineTime, snapResult>>
engineVars == <<engineInput, engineOutput>>
sideVars == <<lockedSnapTime, snapLineTime, snapResult, engineInput, engineOutput>>
vars == <<clips, operationsByClip, operations, selectedClipId, selectedClipIds,
          lastSelectedClipId, linkedGroups, clipboard, historyPast, historyFuture,
          timelineDuration, videoTrackCount, audioTrackCount, currentTime, playing,
          nextId, importJob, mergeJob, lastCmd, exportJobs, currentExportProcess,
          lockedSnapTime, snapLineTime, snapResult, engineInput, engineOutput>>

EmptyFn == [x \in {} |-> TRUE]
Put(f, k, v) == [x \in (DOMAIN f) \cup {k} |-> IF x = k THEN v ELSE f[x]]
Override(f, g) == [x \in (DOMAIN f) \cup (DOMAIN g) |-> IF x \in DOMAIN g THEN g[x] ELSE f[x]]
Remove(f, ks) == [x \in (DOMAIN f) \ ks |-> f[x]]

NoJob == [pc |-> "idle"]
NoClipboard == [clips |-> <<>>]
\* useState<number | null>(null): no snap point is held, no snap line is shown
NoSnapTime == -1
\* no snap check has run since the hook was mounted
NoSnapResult == [call |-> "none"]
\* no filter graph has been built yet
NoEngineCall == [fn |-> "none"]

\* store.operations after a command: operationsByClip[selectedClipId] || fallback
OpsOfSelected(obc, sel, fallback) ==
    IF sel # NoId /\ sel \in DOMAIN obc THEN obc[sel] ELSE fallback

\* the store as one value: the fields takeSnapshot reads and undo/redo write
StoreState ==
    [clips |-> clips, operationsByClip |-> operationsByClip,
     selectedClipId |-> selectedClipId, selectedClipIds |-> selectedClipIds,
     lastSelectedClipId |-> lastSelectedClipId, linkedGroups |-> linkedGroups,
     timelineDuration |-> timelineDuration, videoTrackCount |-> videoTrackCount,
     audioTrackCount |-> audioTrackCount, currentTime |-> currentTime,
     operations |-> operations, playing |-> playing,
     historyPast |-> historyPast, historyFuture |-> historyFuture]

\* takeSnapshot(state) that forgets the link flags
SnapshotWithoutLinks(state) ==
    [clips |-> state.clips, operationsByClip |-> state.operationsByClip,
     selectedClipId |-> state.selectedClipId, selectedClipIds |-> state.selectedClipIds,
     lastSelectedClipId |-> state.lastSelectedClipId, linkedGroups |-> EmptyFn,
     timelineDuration |-> state.timelineDuration, videoTrackCount |-> state.videoTrackCount,
     audioTrackCount |-> state.audioTrackCount, currentTime |-> state.currentTime]

\* takeSnapshot(state)
SnapshotOf(state) ==
    [clips |-> state.clips, operationsByClip |-> state.operationsByClip,
     selectedClipId |-> state.selectedClipId, selectedClipIds |-> state.selectedClipIds,
     lastSelectedClipId |-> state.lastSelectedClipId, linkedGroups |-> state.linkedGroups,
     timelineDuration |-> state.timelineDuration, videoTrackCount |-> state.videoTrackCount,
     audioTrackCount |-> state.audioTrackCount, currentTime |-> state.currentTime]

\* takeSnapshot of the current store
takeSnapshot == SnapshotOf(StoreState)

\* the fields applySnapshot writes that the model keeps
applySnapshot(snapshot) ==
    [clips |-> snapshot.clips, operationsByClip |-> snapshot.operationsByClip,
     selectedClipId |-> snapshot.selectedClipId, selectedClipIds |-> snapshot.selectedClipIds,
     lastSelectedClipId |-> snapshot.lastSelectedClipId, linkedGroups |-> snapshot.linkedGroups,
     timelineDuration |-> snapshot.timelineDuration, videoTrackCount |-> snapshot.videoTrackCount,
     audioTrackCount |-> snapshot.audioTrackCount, currentTime |-> snapshot.currentTime,
     operations |-> IF FindClip(snapshot.clips, snapshot.selectedClipId) # NoClip
                    THEN OpsOrEmpty(snapshot.operationsByClip, snapshot.selectedClipId)
                    ELSE <<>>,
     playing |-> FALSE]

InitWith(input) ==
    /\ clips = <<>>
    /\ operationsByClip = EmptyFn
    /\ operations = <<>>
    /\ selectedClipId = NoId
    /\ selectedClipIds = <<>>
    /\ lastSelectedClipId = NoId
    /\ linkedGroups = EmptyFn
    /\ clipboard = NoClipboard
    /\ historyPast = <<>>
    /\ historyFuture = <<>>
    /\ timelineDuration = 0
    /\ videoTrackCount = InitTrackCount
    /\ audioTrackCount = InitTrackCount
    /\ currentTime = 0
    /\ playing = FALSE
    /\ nextId = 1
    /\ importJob = NoJob
    /\ mergeJob = NoJob
    /\ lastCmd = "init"
    /\ exportJobs = <<>>
    /\ currentExportProcess = NoId
    /\ lockedSnapTime = NoSnapTime
    /\ snapLineTime = NoSnapTime
    /\ snapResult = NoSnapResult
    /\ engineInput = input
    /\ engineOutput = <<>>

\* the application right after start: nothing has been asked of the engine
Init == InitWith(NoEngineCall)

\* what every store command may explore: the arithmetic stays exact, the
\* timeline stays inside the horizon and the undo stack inside its bound
InBounds ==
    /\ ExactOps(clips', operationsByClip')
    /\ timelineDuration' <= MaxTime
    /\ Len(historyPast') <= MaxHistory
    /\ nextId' <= MaxId + 1

\* ------------------------------------------------------------ inputs
FileDuration == 2000
FileKinds == {"av", "v", "bad"}
ImportLists == {<<"av">>, <<"v">>, <<"bad">>, <<"v", "v", "v">>, <<"v", "bad">>}

\* window.api.getMediaInfo(filePath): the probe's answer for a file
getMediaInfo(kind) ==
    [success |-> kind # "bad",
     data |-> [hasVideo |-> kind \in {"av", "v"}, hasAudio |-> kind \in {"av", "a"},
               duration |-> FileDuration]]

NewClip(id, groupId, track, trackIndex, startTime, info) ==
    [id |-> id, groupId |-> groupId, track |-> track, trackIndex |-> trackIndex,
     startTime |-> startTime, duration |-> info.duration,
     trimBoundStart |-> 0, trimBoundEnd |-> info.duration,
     mediaInfo |-> [hasVideo |-> info.hasVideo, hasAudio |-> info.hasAudio]]

CountTrack(cs, track) == Cardinality({i \in 1..Len(cs) : cs[i].track = track})

\* first clip of cs on the given track, NoClip when there is none
FirstOnTrack(cs, track) ==
    LET hits == {i \in 1..Len(cs) : cs[i].track = track}
    IN IF hits = {} THEN NoClip ELSE cs[CHOOSE i \in hits : \A j \in hits : i <= j]

\* pastedClips.find(video)?.id || pastedClips[0]?.id || null
PreferVideoId(cs) ==
    IF FirstOnTrack(cs, "video") # NoClip THEN FirstOnTrack(cs, "video").id
    ELSE IF cs # <<>> THEN cs[1].id ELSE NoId

\* ------------------------------------------------------------ loadFiles
\* one iteration of the for-loop over filePaths for a file whose probe succeeded
ImportOne(info, vCount, aCount, acc, groupId, vId, aId) ==
    [failed |-> FALSE,
     newClips |-> acc.newClips
                  \o (IF info.hasVideo
                      THEN <<NewClip(vId, groupId, "video",
                                     IF vCount > 0 THEN acc.videoClipCounter % vCount ELSE 0,
                                     acc.timelineEnd, info)>>
                      ELSE <<>>)
                  \o (IF info.hasAudio
                      THEN <<NewClip(aId, groupId, "audio",
                                     IF aCount > 0 THEN acc.audioClipCounter % aCount ELSE 0,
                                     acc.timelineEnd, info)>>
                      ELSE <<>>),
     ops |-> [id \in (DOMAIN acc.ops) \cup (IF info.hasVideo THEN {vId} ELSE {})
                                      \cup (IF info.hasAudio THEN {aId} ELSE {}) |->
                 IF (info.hasVideo /\ id = vId) \/ (info.hasAudio /\ id = aId)
                 THEN createDefaultOperations(info.duration) ELSE acc.ops[id]],
     groups |-> Put(acc.groups, groupId, TRUE),
     videoClipCounter |-> acc.videoClipCounter + (IF info.hasVideo THEN 1 ELSE 0),
     audioClipCounter |-> acc.audioClipCounter + (IF info.hasAudio THEN 1 ELSE 0),
     timelineEnd |-> Max2(acc.timelineEnd, acc.timelineEnd + info.duration),
     nextId |-> acc.nextId + 1 + (IF info.hasVideo THEN 1 ELSE 0)
                              + (IF info.hasAudio THEN 1 ELSE 0)]

\* the for-loop with a failed probe skipped instead of thrown
RECURSIVE ImportLoopSkipsFailed(_, _, _, _)
ImportLoopSkipsFailed(files, vCount, aCount, acc) ==
    IF files = <<>> THEN acc
    ELSE IF ~getMediaInfo(Head(files)).success
    THEN ImportLoopSkipsFailed(Tail(files), vCount, aCount, acc)
    ELSE ImportLoopSkipsFailed(Tail(files), vCount, aCount,
             ImportOne(getMediaInfo(Head(files)).data, vCount, aCount, acc, acc.nextId,
                       acc.nextId + 1,
                       IF getMediaInfo(Head(files)).data.hasVideo
                       THEN acc.nextId + 2 ELSE acc.nextId + 1))

\* the for-loop over filePaths; acc carries newClips, newOperationsByClip,
\* newLinkedGroups, the counters and whether a probe has thrown
RECURSIVE ImportLoop(_, _, _, _)
ImportLoop(files, vCount, aCount, acc) ==
    IF files = <<>> \/ acc.failed THEN acc
    ELSE IF ~getMediaInfo(Head(files)).success THEN [acc EXCEPT !.failed = TRUE]
    ELSE ImportLoop(Tail(files), vCount, aCount,
             ImportOne(getMediaInfo(Head(files)).data, vCount, aCount, acc, acc.nextId,
                       acc.nextId + 1,
                       IF getMediaInfo(Head(files)).data.hasVideo
                       THEN acc.nextId + 2 ELSE acc.nextId + 1))

\* loadFiles up to its first await: stateBeforeImport = get()
ImportStart(files) ==
    /\ importJob.pc = "idle"
    /\ importJob' = [pc |-> "probing", files |-> files,
                     before |-> takeSnapshot, historyPast |-> historyPast]
    /\ lastCmd' = "loadFiles:start"
    /\ UNCHANGED <<storeVars, nextId, mergeJob, exportVars, sideVars>>

\* loadFiles after its last probe has answered
ImportFinish ==
    /\ importJob.pc = "probing"
    /\ \E before \in {importJob.before} :
       \E acc \in {ImportLoop(importJob.files, before.videoTrackCount, before.audioTrackCount,
                      [failed |-> FALSE, newClips |-> <<>>, ops |-> EmptyFn, groups |-> EmptyFn,
                       videoClipCounter |-> CountTrack(before.clips, "video"),
                       audioClipCounter |-> CountTrack(before.clips, "audio"),
                       timelineEnd |-> getTimelineDuration(before.clips, before.operationsByClip),
                       nextId |-> nextId])} :
       IF acc.failed \/ acc.newClips = <<>>
       THEN /\ UNCHANGED <<storeVars, nextId>>
            /\ lastCmd' = "loadFiles:failed"
       ELSE
       \E combinedOps \in {Override(before.operationsByClip, acc.ops)} :
       \E combinedGroups \in {Override(before.linkedGroups, acc.groups)} :
       \E resolvedClips \in {resolveClipOverlaps(before.clips \o acc.newClips, combinedOps,
                                                 ClipIds(acc.newClips), combinedGroups)} :
       \E nextSelectedClipId \in {IF before.selectedClipId # NoId THEN before.selectedClipId
                                  ELSE PreferVideoId(acc.newClips)} :
       \E selectedClip \in {FindClip(resolvedClips, nextSelectedClipId)} :
          /\ clips' = resolvedClips
          /\ selectedClipId' = nextSelectedClipId
          /\ selectedClipIds' = <<nextSelectedClipId>>
          /\ lastSelectedClipId' = nextSelectedClipId
          /\ timelineDuration' = getTimelineDuration(resolvedClips, combinedOps)
          /\ operationsByClip' = combinedOps
          /\ linkedGroups' = combinedGroups
          /\ historyPast' = Append(importJob.historyPast, before)
          /\ historyFuture' = <<>>
          /\ operations' = IF selectedClip # NoClip
                           THEN OpsOrEmpty(combinedOps, selectedClip.id) ELSE <<>>
          /\ currentTime' = IF selectedClip # NoClip THEN selectedClip.startTime
                            ELSE before.currentTime
          /\ playing' = FALSE
          /\ nextId' = acc.nextId
          /\ lastCmd' = "loadFiles"
          /\ UNCHANGED <<clipboard, videoTrackCount, audioTrackCount>>
    /\ importJob' = NoJob
    /\ InBounds
    /\ UNCHANGED <<mergeJob, exportVars, sideVars>>

\* ------------------------------------------------------------ selection
AppendNew(seq, x) == IF x \in SeqToSet(seq) THEN seq ELSE Append(seq, x)

RECURSIVE AddAll(_, _)
AddAll(acc, seq) == IF seq = <<>> THEN acc ELSE AddAll(AppendNew(acc, Head(seq)), Tail(seq))

\* ids of the clips of group g, in clip order
GroupMemberIds(cs, g) ==
    LET members == SelectSeq(cs, LAMBDA c : c.groupId = g)
    IN [i \in 1..Len(members) |-> members[i].id]

RECURSIVE ExpandLoop(_, _, _, _)
ExpandLoop(cs, lg, ids, acc) ==
    IF ids = <<>> THEN acc
    ELSE LET base == FindClip(cs, Head(ids))
         IN ExpandLoop(cs, lg, Tail(ids),
                IF base # NoClip /\ IsLinked(lg, base.groupId)
                THEN AddAll(acc, GroupMemberIds(cs, base.groupId)) ELSE acc)

expandLinked(cs, lg, ids) == ExpandLoop(cs, lg, ids, AddAll(<<>>, ids))

ClipOrderBefore(a, b) ==
    IF a.startTime # b.startTime THEN a.startTime < b.startTime
    ELSE IF a.track # b.track THEN a.track = "video"
    ELSE IF a.trackIndex # b.trackIndex THEN a.trackIndex < b.trackIndex
    ELSE a.id < b.id

RECURSIVE InsertOrdered(_, _)
InsertOrdered(sorted, c) ==
    IF sorted = <<>> THEN <<c>>
    ELSE IF ClipOrderBefore(c, Head(sorted)) THEN <<c>> \o sorted
    ELSE <<Head(sorted)>> \o InsertOrdered(Tail(sorted), c)

RECURSIVE getOrderedClips(_)
getOrderedClips(cs) ==
    IF cs = <<>> THEN <<>> ELSE InsertOrdered(getOrderedClips(Tail(cs)), Head(cs))

IndexOfId(cs, id) ==
    LET hits == {i \in 1..Len(cs) : cs[i].id = id}
    IN IF hits = {} THEN 0 ELSE CHOOSE i \in hits : \A j \in hits : i <= j

SelectModes == {"single", "toggle", "range"}

selectClip(clipId, mode) ==
    LET clip == FindClip(clips, clipId)
        clipOperations == OpsOrDefault(operationsByClip, clipId, clip.duration)
        groupIds == IF IsLinked(linkedGroups, clip.groupId)
                    THEN GroupMemberIds(clips, clip.groupId) ELSE <<clipId>>
        hasAny == \E i \in 1..Len(groupIds) : groupIds[i] \in SeqToSet(selectedClipIds)
        toggled == IF hasAny
                   THEN SeqFilter(selectedClipIds, SeqToSet(selectedClipIds) \ SeqToSet(groupIds))
                   ELSE selectedClipIds \o groupIds
        ordered == getOrderedClips(clips)
        anchorId == IF lastSelectedClipId # NoId THEN lastSelectedClipId ELSE clipId
        startIndex == IndexOfId(ordered, anchorId)
        endIndex == IndexOfId(ordered, clipId)
        from == Min2(startIndex, endIndex)
        to == Max2(startIndex, endIndex)
        slice == SubSeq(ordered, from, to)
        nextSelectedIds ==
            IF mode = "single" THEN expandLinked(clips, linkedGroups, <<clipId>>)
            ELSE IF mode = "toggle"
            THEN IF toggled = <<>> THEN expandLinked(clips, linkedGroups, <<clipId>>) ELSE toggled
            ELSE IF startIndex >= 1 /\ endIndex >= 1
            THEN expandLinked(clips, linkedGroups, [i \in 1..Len(slice) |-> slice[i].id])
            ELSE expandLinked(clips, linkedGroups, <<clipId>>)
    IN /\ clip # NoClip
       /\ selectedClipId' = clipId
       /\ selectedClipIds' = nextSelectedIds
       /\ lastSelectedClipId' = clipId
       /\ operations' = clipOperations
       /\ operationsByClip' = Put(operationsByClip, clipId, clipOperations)
       /\ lastCmd' = "selectClip"
       /\ UNCHANGED <<clips, linkedGroups, clipboard, historyPast, historyFuture,
                      timelineDuration, videoTrackCount, audioTrackCount, currentTime,
                      playing, nextId, importJob, mergeJob, exportVars, sideVars>>

activateClip(clipId) ==
    LET clip == FindClip(clips, clipId)
        clipOperations == OpsOrDefault(operationsByClip, clipId, clip.duration)
    IN /\ clip # NoClip
       /\ selectedClipId' = clipId
       /\ selectedClipIds' = <<clipId>>
       /\ lastSelectedClipId' = clipId
       /\ operations' = clipOperations
       /\ operationsByClip' = Put(operationsByClip, clipId, clipOperations)
       /\ lastCmd' = "activateClip"
       /\ UNCHANGED <<clips, linkedGroups, clipboard, historyPast, historyFuture,
                      timelineDuration, videoTrackCount, audioTrackCount, currentTime,
                      playing, nextId, importJob, mergeJob, exportVars, sideVars>>

\* ------------------------------------------------------------ tracks
ClampTrack(cs, track, nextCount) ==
    [i \in 1..Len(cs) |->
        IF cs[i].track = track /\ cs[i].trackIndex >= nextCount
        THEN [cs[i] EXCEPT !.trackIndex = nextCount - 1] ELSE cs[i]]

addVideoTrack ==
    /\ videoTrackCount' = Min2(videoTrackCount + 1, MAX_TRACKS)
    /\ lastCmd' = "addVideoTrack"
    /\ UNCHANGED <<clips, operationsByClip, operations, selectedClipId, selectedClipIds,
                   lastSelectedClipId, linkedGroups, clipboard, historyPast, historyFuture,
                   timelineDuration, audioTrackCount, currentTime, playing,
                   nextId, importJob, mergeJob, exportVars, sideVars>>

removeVideoTrack ==
    /\ LET nextCount == Max2(videoTrackCount - 1, 1)
       IN IF nextCount = videoTrackCount
          THEN UNCHANGED <<videoTrackCount, clips>>
          ELSE /\ videoTrackCount' = nextCount
               /\ clips' = ClampTrack(clips, "video", nextCount)
    /\ lastCmd' = "removeVideoTrack"
    /\ UNCHANGED <<operationsByClip, operations, selectedClipId, selectedClipIds,
                   lastSelectedClipId, linkedGroups, clipboard, historyPast, historyFuture,
                   timelineDuration, audioTrackCount, currentTime, playing,
                   nextId, importJob, mergeJob, exportVars, sideVars>>

addAudioTrack ==
    /\ audioTrackCount' = Min2(audioTrackCount + 1, MAX_TRACKS)
    /\ lastCmd' = "addAudioTrack"
    /\ UNCHANGED <<clips, operationsByClip, operations, selectedClipId, selectedClipIds,
                   lastSelectedClipId, linkedGroups, clipboard, historyPast, historyFuture,
                   timelineDuration, videoTrackCount, currentTime, playing,
                   nextId, importJob, mergeJob, exportVars, sideVars>>

removeAudioTrack ==
    /\ LET nextCount == Max2(audioTrackCount - 1, 1)
       IN IF nextCount = audioTrackCount
          THEN UNCHANGED <<audioTrackCount, clips>>
          ELSE /\ audioTrackCount' = nextCount
               /\ clips' = ClampTrack(clips, "audio", nextCount)
    /\ lastCmd' = "removeAudioTrack"
    /\ UNCHANGED <<operationsByClip, operations, selectedClipId, selectedClipIds,
                   lastSelectedClipId, linkedGroups, clipboard, historyPast, historyFuture,
                   timelineDuration, videoTrackCount, currentTime, playing,
                   nextId, importJob, mergeJob, exportVars, sideVars>>

\* ------------------------------------------------------------ moveClip
Undef == -1
MoveTargets == {Undef, 0, 1000, 3000}
TrackTargets == {Undef, 0, 1}
MissingId == MaxId + 2
ClipIdInputs == ClipIds(clips) \cup {MissingId}

\* addLinkedGroup(baseClip): the ids it adds to affectedIds
LinkedGroupIds(cs, lg, baseClip) ==
    IF IsLinked(lg, baseClip.groupId)
    THEN {cs[i].id : i \in {j \in 1..Len(cs) : cs[j].groupId = baseClip.groupId}}
    ELSE {}

\* what moveClip hands to resolveClipOverlaps: the clips with the patch and
\* the group/selection delta applied, and the ids it applied them to
MoveInput(clip, patchStart, patchTrack) ==
    LET clipId == clip.id
        delta == (IF patchStart # Undef THEN patchStart ELSE clip.startTime) - clip.startTime
        affectedIds ==
            IF clipId \in SeqToSet(selectedClipIds) /\ Len(selectedClipIds) > 1 /\ delta # 0
            THEN SeqToSet(selectedClipIds) \cup
                 UNION {LinkedGroupIds(clips, linkedGroups, FindClip(clips, id)) :
                            id \in SeqToSet(selectedClipIds) \cap ClipIds(clips)}
            ELSE {clipId} \cup LinkedGroupIds(clips, linkedGroups, clip)
    IN [clips |-> [i \in 1..Len(clips) |->
                     IF clips[i].id \notin affectedIds THEN clips[i]
                     ELSE [clips[i] EXCEPT
                             !.startTime = IF clips[i].id = clipId \/ delta # 0
                                           THEN Max2(0, clips[i].startTime + delta)
                                           ELSE clips[i].startTime,
                             !.trackIndex = IF clips[i].id = clipId /\ patchTrack # Undef
                                            THEN patchTrack ELSE clips[i].trackIndex]],
        activeClipIds |-> affectedIds]

moveClip(clipId, patchStart, patchTrack, recordHistory) ==
    /\ \E clip \in {FindClip(clips, clipId)} :
       IF clip = NoClip
       THEN UNCHANGED <<clips, timelineDuration, currentTime, historyPast, historyFuture>>
       ELSE
       \E input \in {MoveInput(clip, patchStart, patchTrack)} :
       \E resolvedClips \in
             {resolveClipOverlaps(input.clips, operationsByClip, input.activeClipIds,
                                  linkedGroups)} :
       \E nextTimelineDuration \in {getTimelineDuration(resolvedClips, operationsByClip)} :
          /\ clips' = resolvedClips
          /\ timelineDuration' = nextTimelineDuration
          /\ currentTime' = clampTimelineTime(currentTime, nextTimelineDuration)
          /\ historyPast' = IF recordHistory THEN Append(historyPast, takeSnapshot)
                            ELSE historyPast
          /\ historyFuture' = IF recordHistory THEN <<>> ELSE historyFuture
    /\ lastCmd' = "moveClip"
    /\ UNCHANGED <<operationsByClip, operations, selectedClipId, selectedClipIds,
                   lastSelectedClipId, linkedGroups, clipboard, videoTrackCount,
                   audioTrackCount, playing, nextId, importJob, mergeJob, exportVars, sideVars>>
    /\ InBounds

\* ------------------------------------------------------------ trimClipEdge
TrimDeltas == {-1000, 1000}
Edges == {"start", "end"}

\* the new trim and start time of one target, once its clamped trim is known
TrimResult(target, ops, ti, speedRate, edge, newTrimStart, newTrimEnd) ==
    [skip |-> FALSE,
     exact |-> (newTrimStart - ops[ti].params.startTime) % speedRate = 0,
     ops |-> [ops EXCEPT ![ti] = [@ EXCEPT !.enabled = TRUE,
                 !.params = [startTime |-> newTrimStart, endTime |-> newTrimEnd]]],
     startTime |-> IF edge = "start"
                   THEN target.startTime
                        + (newTrimStart - ops[ti].params.startTime) \div speedRate
                   ELSE target.startTime]

TrimClamped(target, ops, ti, bounds, speedRate, edge, deltaSeconds, trimStart0, trimEnd0) ==
    TrimResult(target, ops, ti, speedRate, edge,
        IF edge = "start"
        THEN Max2(bounds.min, Min2(ops[ti].params.startTime + deltaSeconds * speedRate,
                                   trimEnd0 - MIN_VISIBLE * speedRate))
        ELSE trimStart0,
        IF edge = "start" THEN trimEnd0
        ELSE Min2(bounds.max, Max2(ops[ti].params.endTime + deltaSeconds * speedRate,
                                   trimStart0 + MIN_VISIBLE * speedRate)))

TrimWithOps(target, ops, ti, bounds, speedRate, edge, deltaSeconds) ==
    IF ti = 0
    THEN [skip |-> TRUE, exact |-> TRUE, ops |-> ops, startTime |-> target.startTime]
    ELSE With(Max2(bounds.min, Min2(ops[ti].params.startTime, bounds.max)), LAMBDA trimStart0 :
            TrimClamped(target, ops, ti, bounds, speedRate, edge, deltaSeconds, trimStart0,
                        Max2(trimStart0, Min2(ops[ti].params.endTime, bounds.max))))

\* the body of the for-loop over affectedClips, for one target
TrimTarget(target, obc, edge, deltaSeconds) ==
    With(OpsOrDefault(obc, target.id, target.duration), LAMBDA ops :
        TrimWithOps(target, ops, FindOpIdx(ops, "trim", FALSE), getClipTrimBounds(target),
                    getSpeedRate(ops), edge, deltaSeconds))

trimClipEdge(clipId, edge, deltaSeconds, recordHistory) ==
    /\ \E clip \in {FindClip(clips, clipId)} :
       IF clip = NoClip
       THEN UNCHANGED <<clips, operationsByClip, operations, timelineDuration,
                        currentTime, historyPast, historyFuture>>
       ELSE
       \E affectedIds \in {IF IsLinked(linkedGroups, clip.groupId)
                           THEN {clips[i].id : i \in {j \in 1..Len(clips) :
                                                        clips[j].groupId = clip.groupId}}
                           ELSE {clipId}} :
       \E res \in {[i \in {j \in 1..Len(clips) : clips[j].id \in affectedIds} |->
                      TrimTarget(clips[i], operationsByClip, edge, deltaSeconds)]} :
       \E touched \in {{i \in DOMAIN res : ~res[i].skip}} :
       \E newOperationsByClip \in
             {Override(operationsByClip,
                       [id \in {clips[i].id : i \in touched} |->
                           res[CHOOSE i \in touched : clips[i].id = id].ops])} :
       \E resolvedClips \in
             {resolveClipOverlaps([i \in 1..Len(clips) |->
                                      IF i \in touched
                                      THEN [clips[i] EXCEPT !.startTime = res[i].startTime]
                                      ELSE clips[i]],
                                  newOperationsByClip, affectedIds, linkedGroups)} :
       \E nextTimelineDuration \in {getTimelineDuration(resolvedClips, newOperationsByClip)} :
          /\ \A i \in touched : res[i].exact
          /\ clips' = resolvedClips
          /\ operationsByClip' = newOperationsByClip
          /\ operations' = OpsOfSelected(newOperationsByClip, selectedClipId, operations)
          /\ timelineDuration' = nextTimelineDuration
          /\ currentTime' = clampTimelineTime(currentTime, nextTimelineDuration)
          /\ historyPast' = IF recordHistory THEN Append(historyPast, takeSnapshot)
                            ELSE historyPast
          /\ historyFuture' = IF recordHistory THEN <<>> ELSE historyFuture
    /\ lastCmd' = "trimClipEdge"
    /\ UNCHANGED <<selectedClipId, selectedClipIds, lastSelectedClipId, linkedGroups,
                   clipboard, videoTrackCount, audioTrackCount, playing,
                   nextId, importJob, mergeJob, exportVars, sideVars>>
    /\ InBounds

\* ------------------------------------------------------------ split
SetTrimParams(ops, startTime, endTime) ==
    [i \in 1..Len(ops) |->
        IF ops[i].type = "trim"
        THEN [ops[i] EXCEPT !.params = [startTime |-> startTime, endTime |-> endTime]]
        ELSE ops[i]]

InsertAfter(cs, id, c) ==
    LET k == IndexOfId(cs, id)
    IN SubSeq(cs, 1, k) \o <<c>> \o SubSeq(cs, k + 1, Len(cs))

\* one iteration of the for-loop over clipsToSplit: clip B, the narrowed clip A
\* and the two operation lists
SplitOne(clip, obc, t, acc, groups, clipBId, clipBounds, localSplitTime, trim, srcOps) ==
    [clips |-> InsertAfter(
                   [i \in 1..Len(acc.clips) |->
                       IF acc.clips[i].id = clip.id
                       THEN [acc.clips[i] EXCEPT !.groupId = groups.groupA,
                                                 !.trimBoundStart = clipBounds.min,
                                                 !.trimBoundEnd = localSplitTime]
                       ELSE acc.clips[i]],
                   clip.id,
                   [clip EXCEPT !.id = clipBId, !.groupId = groups.groupB,
                                !.startTime = t,
                                !.trimBoundStart = localSplitTime,
                                !.trimBoundEnd = clipBounds.max]),
     ops |-> Put(Put(acc.ops, clip.id, SetTrimParams(srcOps, trim.trimStart, localSplitTime)),
                 clipBId, SetTrimParams(srcOps, localSplitTime, trim.trimEnd)),
     groups |-> Put(Put(acc.groups, groups.groupA, TRUE), groups.groupB, TRUE),
     groupIdMap |-> Put(acc.groupIdMap, clip.groupId, groups),
     active |-> acc.active \cup {clip.id, clipBId},
     nextId |-> clipBId + 1]

\* the iteration that cuts at the start of the trim bound, wherever the playhead is
SplitAtBoundStart(clip, obc, t, acc, groups, clipBId, clipBounds) ==
    SplitOne(clip, obc, t, acc, groups, clipBId, clipBounds,
             clipBounds.min,
             getClipTrimValues(clip, obc),
             OpsOrDefault(obc, clip.id, clip.duration))

SplitWithBounds(clip, obc, t, acc, groups, clipBId, clipBounds) ==
    SplitOne(clip, obc, t, acc, groups, clipBId, clipBounds,
             Max2(clipBounds.min, Min2(timelineTimeToMediaTime(clip, obc, t), clipBounds.max)),
             getClipTrimValues(clip, obc),
             OpsOrDefault(obc, clip.id, clip.duration))

\* the for-loop over clipsToSplit; obc is the pre-split operation map
RECURSIVE SplitLoop(_, _, _, _)
SplitLoop(toSplit, obc, t, acc) ==
    IF toSplit = <<>> THEN acc
    ELSE SplitLoop(Tail(toSplit), obc, t,
             IF Head(toSplit).groupId \in DOMAIN acc.groupIdMap
             THEN SplitWithBounds(Head(toSplit), obc, t, acc,
                                  acc.groupIdMap[Head(toSplit).groupId],
                                  acc.nextId, getClipTrimBounds(Head(toSplit)))
             ELSE SplitWithBounds(Head(toSplit), obc, t, acc,
                                  [groupA |-> acc.nextId, groupB |-> acc.nextId + 1],
                                  acc.nextId + 2, getClipTrimBounds(Head(toSplit))))

StraddlesRange(range, t) ==
    t > range.start + SPLIT_MARGIN /\ t < range.end - SPLIT_MARGIN

Straddles(clip, obc, t) == StraddlesRange(getClipTimelineRange(clip, obc), t)

splitClipAtPlayhead ==
    /\ \E clipsToSplit \in
             {SelectSeq(clips, LAMBDA c : Straddles(c, operationsByClip, currentTime))} :
       IF clipsToSplit = <<>>
       THEN UNCHANGED <<clips, operationsByClip, operations, timelineDuration,
                        linkedGroups, historyPast, historyFuture, nextId>>
       ELSE \E acc \in {SplitLoop(clipsToSplit, operationsByClip, currentTime,
                           [clips |-> clips, ops |-> operationsByClip, groups |-> linkedGroups,
                            groupIdMap |-> EmptyFn, active |-> {}, nextId |-> nextId])} :
            \E resolvedClips \in
                  {resolveClipOverlaps(acc.clips, acc.ops, acc.active, acc.groups)} :
               /\ clips' = resolvedClips
               /\ operationsByClip' = acc.ops
               /\ operations' = OpsOfSelected(acc.ops, selectedClipId, operations)
               /\ timelineDuration' = getTimelineDuration(resolvedClips, acc.ops)
               /\ linkedGroups' = acc.groups
               /\ historyPast' = Append(historyPast, takeSnapshot)
               /\ historyFuture' = <<>>
               /\ nextId' = acc.nextId
    /\ lastCmd' = "splitClipAtPlayhead"
    /\ UNCHANGED <<selectedClipId, selectedClipIds, lastSelectedClipId, clipboard,
                   videoTrackCount, audioTrackCount, currentTime, playing,
                   importJob, mergeJob, exportVars, sideVars>>
    /\ InBounds

\* ------------------------------------------------------------ clipboard
RECURSIVE SeqMin(_)
SeqMin(xs) == IF Len(xs) = 1 THEN xs[1] ELSE Min2(xs[1], SeqMin(Tail(xs)))

\* the clipboard record copySelectedClips builds (NoClipboard when it returns early)
CopiedClipboard ==
    LET selectedClips == FilterClips(clips, SeqToSet(selectedClipIds))
    IN IF selectedClips = <<>> THEN clipboard
       ELSE [clips |-> selectedClips,
             operationsByClip |->
                 [id \in ClipIds(selectedClips) |->
                     OpsOrDefault(operationsByClip, id, FindClip(clips, id).duration)],
             linkedGroups |->
                 [g \in {selectedClips[i].groupId : i \in 1..Len(selectedClips)} |->
                     IsLinked(linkedGroups, g)],
             minStartTime |-> SeqMin([i \in 1..Len(selectedClips) |-> selectedClips[i].startTime])]

copySelectedClips ==
    /\ clipboard' = CopiedClipboard
    /\ lastCmd' = "copySelectedClips"
    /\ UNCHANGED <<clips, operationsByClip, operations, selectedClipId, selectedClipIds,
                   lastSelectedClipId, linkedGroups, historyPast, historyFuture,
                   timelineDuration, videoTrackCount, audioTrackCount, currentTime, playing,
                   nextId, importJob, mergeJob, exportVars, sideVars>>

\* a group map that leaves every copied group id as it was and draws no fresh id
PasteKeepingGroups(cs, map, id) ==
    [map |-> [g \in {cs[i].groupId : i \in 1..Len(cs)} |-> g], nextId |-> id]

\* groupMap of pasteCopiedClips: old group id -> fresh id, in clipboard order
RECURSIVE PasteGroupMap(_, _, _)
PasteGroupMap(cs, map, id) ==
    IF cs = <<>> THEN [map |-> map, nextId |-> id]
    ELSE IF Head(cs).groupId \in DOMAIN map THEN PasteGroupMap(Tail(cs), map, id)
    ELSE PasteGroupMap(Tail(cs), Put(map, Head(cs).groupId, id), id + 1)

pasteCopiedClips ==
    /\ IF clipboard.clips = <<>>
       THEN UNCHANGED <<clips, operationsByClip, operations, linkedGroups, selectedClipId,
                        selectedClipIds, lastSelectedClipId, timelineDuration, currentTime,
                        historyPast, historyFuture, nextId>>
       ELSE
       \E gm \in {PasteGroupMap(clipboard.clips, EmptyFn, nextId)} :
       \E n \in {Len(clipboard.clips)} :
       \E pastedClips \in
             {[i \in 1..n |->
                 [clipboard.clips[i] EXCEPT
                     !.id = gm.nextId + i - 1,
                     !.groupId = gm.map[clipboard.clips[i].groupId],
                     !.startTime = Max2(0, currentTime + clipboard.clips[i].startTime
                                              - clipboard.minStartTime)]]} :
       \E nextOpsByClip \in
             {Override(operationsByClip,
                       [id \in {gm.nextId + i - 1 : i \in 1..n} |->
                           OpsOrDefault(clipboard.operationsByClip,
                                        clipboard.clips[id - gm.nextId + 1].id,
                                        clipboard.clips[id - gm.nextId + 1].duration)])} :
       \E nextLinkedGroups \in
             {Override(linkedGroups,
                       [g \in {gm.map[o] : o \in DOMAIN gm.map} |->
                           IsLinked(clipboard.linkedGroups,
                                    CHOOSE x \in DOMAIN gm.map : gm.map[x] = g)])} :
       \E resolvedClips \in
             {resolveClipOverlaps(clips \o pastedClips, nextOpsByClip,
                                  ClipIds(pastedClips), nextLinkedGroups)} :
       \E nextTimelineDuration \in {getTimelineDuration(resolvedClips, nextOpsByClip)} :
       \E nextSelectedClipId \in {PreferVideoId(pastedClips)} :
          /\ clips' = resolvedClips
          /\ operationsByClip' = nextOpsByClip
          /\ linkedGroups' = nextLinkedGroups
          /\ selectedClipId' = nextSelectedClipId
          /\ selectedClipIds' = [i \in 1..n |-> pastedClips[i].id]
          /\ lastSelectedClipId' = nextSelectedClipId
          /\ operations' = IF FindClip(resolvedClips, nextSelectedClipId) # NoClip
                           THEN OpsOrEmpty(nextOpsByClip, nextSelectedClipId) ELSE <<>>
          /\ timelineDuration' = nextTimelineDuration
          /\ currentTime' = clampTimelineTime(currentTime, nextTimelineDuration)
          /\ historyPast' = Append(historyPast, takeSnapshot)
          /\ historyFuture' = <<>>
          /\ nextId' = gm.nextId + n
    /\ lastCmd' = "pasteCopiedClips"
    /\ UNCHANGED <<clipboard, videoTrackCount, audioTrackCount, playing,
                   importJob, mergeJob, exportVars, sideVars>>
    /\ InBounds

\* ------------------------------------------------------------ delete
deleteClip(clipId) ==
    /\ \E newOpsByClip \in {Remove(operationsByClip, {clipId})} :
       \E resolvedClips \in {resolveClipOverlaps(FilterClips(clips, ClipIds(clips) \ {clipId}),
                                                 newOpsByClip, {}, linkedGroups)} :
       \E nextSelectedId \in {IF selectedClipId = clipId
                              THEN (IF resolvedClips # <<>> THEN resolvedClips[1].id ELSE NoId)
                              ELSE selectedClipId} :
       \E nextSelectedIds \in {SeqFilter(selectedClipIds, SeqToSet(selectedClipIds) \ {clipId})} :
          /\ clips' = resolvedClips
          /\ operationsByClip' = newOpsByClip
          /\ selectedClipId' = nextSelectedId
          /\ selectedClipIds' = IF nextSelectedIds # <<>> THEN nextSelectedIds
                                ELSE IF nextSelectedId # NoId THEN <<nextSelectedId>> ELSE <<>>
          /\ lastSelectedClipId' = nextSelectedId
          /\ operations' = IF nextSelectedId # NoId
                           THEN OpsOrEmpty(newOpsByClip, nextSelectedId) ELSE <<>>
          /\ timelineDuration' = getTimelineDuration(resolvedClips, newOpsByClip)
    /\ historyPast' = Append(historyPast, takeSnapshot)
    /\ historyFuture' = <<>>
    /\ lastCmd' = "deleteClip"
    /\ UNCHANGED <<linkedGroups, clipboard, videoTrackCount, audioTrackCount,
                   currentTime, playing, nextId, importJob, mergeJob, exportVars, sideVars>>
    /\ InBounds

\* removeSet of deleteSelectedClips
RemoveSet ==
    SeqToSet(selectedClipIds) \cup
    UNION {LinkedGroupIds(clips, linkedGroups, FindClip(clips, id)) :
              id \in SeqToSet(selectedClipIds) \cap ClipIds(clips)}

\* the set() of deleteSelectedClips, without the fields cut also writes
DeleteSelectedBody ==
    IF selectedClipIds = <<>>
    THEN UNCHANGED <<clips, operationsByClip, selectedClipId, selectedClipIds,
                     lastSelectedClipId, operations, timelineDuration,
                     historyPast, historyFuture>>
    ELSE \E newOpsByClip \in {Remove(operationsByClip, RemoveSet)} :
         \E resolvedClips \in {resolveClipOverlaps(FilterClips(clips, ClipIds(clips) \ RemoveSet),
                                                   newOpsByClip, {}, linkedGroups)} :
         \E nextSelectedId \in {IF resolvedClips # <<>> THEN resolvedClips[1].id ELSE NoId} :
            /\ clips' = resolvedClips
            /\ operationsByClip' = newOpsByClip
            /\ selectedClipId' = nextSelectedId
            /\ selectedClipIds' = IF nextSelectedId # NoId THEN <<nextSelectedId>> ELSE <<>>
            /\ lastSelectedClipId' = nextSelectedId
            /\ operations' = IF nextSelectedId # NoId
                             THEN OpsOrEmpty(newOpsByClip, nextSelectedId) ELSE <<>>
            /\ timelineDuration' = getTimelineDuration(resolvedClips, newOpsByClip)
            /\ historyPast' = Append(historyPast, takeSnapshot)
            /\ historyFuture' = <<>>

deleteSelectedClips ==
    /\ DeleteSelectedBody
    /\ lastCmd' = "deleteSelectedClips"
    /\ UNCHANGED <<linkedGroups, clipboard, videoTrackCount, audioTrackCount,
                   currentTime, playing, nextId, importJob, mergeJob, exportVars, sideVars>>
    /\ InBounds

cutSelectedClips ==
    /\ clipboard' = CopiedClipboard
    /\ DeleteSelectedBody
    /\ lastCmd' = "cutSelectedClips"
    /\ UNCHANGED <<linkedGroups, videoTrackCount, audioTrackCount,
                   currentTime, playing, nextId, importJob, mergeJob, exportVars, sideVars>>
    /\ InBounds

\* ------------------------------------------------------------ playhead
TimeInputs == {0, 500, 1000, 3000}

setCurrentTime(time) ==
    /\ currentTime' = Max2(0, Min2(time, timelineDuration))
    /\ lastCmd' = "setCurrentTime"
    /\ UNCHANGED <<clips, operationsByClip, operations, selectedClipId, selectedClipIds,
                   lastSelectedClipId, linkedGroups, clipboard, historyPast, historyFuture,
                   timelineDuration, videoTrackCount, audioTrackCount, playing,
                   nextId, importJob, mergeJob, exportVars, sideVars>>

setPlaying(p) ==
    /\ playing' = p
    /\ lastCmd' = "setPlaying"
    /\ UNCHANGED <<clips, operationsByClip, operations, selectedClipId, selectedClipIds,
                   lastSelectedClipId, linkedGroups, clipboard, historyPast, historyFuture,
                   timelineDuration, videoTrackCount, audioTrackCount, currentTime,
                   nextId, importJob, mergeJob, exportVars, sideVars>>

\* ------------------------------------------------------------ setClipDuration
ClipDurations == {1000, 3000}

\* a setClipDuration that applies the probed duration to every clip
SetEveryClipDuration(clipId, duration) ==
    /\ clips' = [i \in 1..Len(clips) |->
                    [clips[i] EXCEPT !.duration = duration,
                                     !.trimBoundStart = Min2(@, duration),
                                     !.trimBoundEnd = Min2(@, duration)]]
    /\ operationsByClip' = [id \in DOMAIN operationsByClip |->
                               SetTrimParams(operationsByClip[id], 0, duration)]
    /\ operations' = operations
    /\ timelineDuration' = getTimelineDuration(clips', operationsByClip')
    /\ currentTime' = clampTimelineTime(currentTime, timelineDuration')

\* the set() of setClipDuration; the player's loadedmetadata handler reuses it
SetClipDurationBody(clipId, duration) ==
    LET clip == FindClip(clips, clipId)
        ops == OpsOrDefault(operationsByClip, clipId, clip.duration)
        nextOps == [i \in 1..Len(ops) |->
                      IF ops[i].type = "trim"
                      THEN [ops[i] EXCEPT !.params.endTime = Min2(@, duration)]
                      ELSE ops[i]]
        nextOpsByClip == Put(operationsByClip, clipId, nextOps)
        nextClips == [i \in 1..Len(clips) |->
                        LET c == clips[i]
                            nextBoundStart == Max2(0, Min2(c.trimBoundStart, duration))
                            nextBoundEnd == Max2(nextBoundStart, Min2(c.trimBoundEnd, duration))
                        IN IF c.id # clipId THEN c
                           ELSE [c EXCEPT !.duration = duration,
                                          !.trimBoundStart = nextBoundStart,
                                          !.trimBoundEnd = nextBoundEnd]]
        resolvedClips == resolveClipOverlaps(nextClips, nextOpsByClip, {clipId}, linkedGroups)
        nextTimelineDuration == getTimelineDuration(resolvedClips, nextOpsByClip)
    IN IF clip = NoClip
       THEN UNCHANGED <<clips, operations, operationsByClip, timelineDuration, currentTime>>
       ELSE /\ clips' = resolvedClips
            /\ operations' = IF clipId = selectedClipId THEN nextOps ELSE operations
            /\ operationsByClip' = nextOpsByClip
            /\ timelineDuration' = nextTimelineDuration
            /\ currentTime' = clampTimelineTime(currentTime, nextTimelineDuration)

setClipDuration(clipId, duration) ==
    /\ SetClipDurationBody(clipId, duration)
    /\ lastCmd' = "setClipDuration"
    /\ UNCHANGED <<selectedClipId, selectedClipIds, lastSelectedClipId, linkedGroups,
                   clipboard, historyPast, historyFuture, videoTrackCount, audioTrackCount,
                   playing, nextId, importJob, mergeJob, exportVars, sideVars>>
    /\ InBounds

\* ------------------------------------------------------------ toggleGroupLink
GroupIds(cs) == {cs[i].groupId : i \in 1..Len(cs)}

toggleGroupLink(groupId) ==
    /\ linkedGroups' = Put(linkedGroups, groupId, ~IsLinked(linkedGroups, groupId))
    /\ historyPast' = Append(historyPast, takeSnapshot)
    /\ historyFuture' = <<>>
    /\ lastCmd' = "toggleGroupLink"
    /\ UNCHANGED <<clips, operationsByClip, operations, selectedClipId, selectedClipIds,
                   lastSelectedClipId, clipboard, timelineDuration, videoTrackCount,
                   audioTrackCount, currentTime, playing, nextId, importJob, mergeJob,
                   exportVars, sideVars>>
    /\ InBounds

\* ------------------------------------------------------------ undo / redo
ApplySnapshotToStore(a) ==
    /\ clips' = a.clips
    /\ operationsByClip' = a.operationsByClip
    /\ selectedClipId' = a.selectedClipId
    /\ selectedClipIds' = a.selectedClipIds
    /\ lastSelectedClipId' = a.lastSelectedClipId
    /\ linkedGroups' = a.linkedGroups
    /\ timelineDuration' = a.timelineDuration
    /\ videoTrackCount' = a.videoTrackCount
    /\ audioTrackCount' = a.audioTrackCount
    /\ currentTime' = a.currentTime
    /\ operations' = a.operations
    /\ playing' = a.playing

\* {...state, ...applySnapshot(state, snapshot), historyPast, historyFuture}
Restored(snapshot, past, future) ==
    [f \in {"historyPast", "historyFuture"} |->
        IF f = "historyPast" THEN past ELSE future] @@ applySnapshot(snapshot)

\* the store after undo()
UndoState(state) ==
    IF state.historyPast = <<>> THEN state
    ELSE Restored(state.historyPast[Len(state.historyPast)],
                  SubSeq(state.historyPast, 1, Len(state.historyPast) - 1),
                  <<SnapshotOf(state)>> \o state.historyFuture)

\* the store after redo()
RedoState(state) ==
    IF state.historyFuture = <<>> THEN state
    ELSE Restored(state.historyFuture[1],
                  Append(state.historyPast, SnapshotOf(state)),
                  Tail(state.historyFuture))

\* set(next) for a whole store value
SetStore(next) ==
    /\ ApplySnapshotToStore(next)
    /\ historyPast' = next.historyPast
    /\ historyFuture' = next.historyFuture
    /\ UNCHANGED clipboard

undo ==
    /\ \E next \in {UndoState(StoreState)} : SetStore(next)
    /\ lastCmd' = "undo"
    /\ UNCHANGED <<nextId, importJob, mergeJob, exportVars, sideVars>>

redo ==
    /\ \E next \in {RedoState(StoreState)} : SetStore(next)
    /\ lastCmd' = "redo"
    /\ UNCHANGED <<nextId, importJob, mergeJob, exportVars, sideVars>>

\* ------------------------------------------------------------ operation setters
SpeedRates == {1, 2}
VolumeInputs == {50}
PitchInputs == {200}
TrimInputs == {Undef, 0, 1000, 3000}
OpTypes == {"trim", "speed", "volume", "pitch"}

getLinkedAudioClipId(cs, lg, sel) ==
    LET selected == FindClip(cs, sel)
        audio == SelectSeq(cs, LAMBDA c : c.groupId = selected.groupId /\ c.track = "audio")
    IN IF sel = NoId \/ selected = NoClip THEN NoId
       ELSE IF selected.track = "audio" THEN selected.id
       ELSE IF ~IsLinked(lg, selected.groupId) THEN NoId
       ELSE IF audio # <<>> THEN audio[1].id ELSE NoId

\* updateOperation(id, patch): the operation is named by its place in
\* store.operations (0: no operation has that id); the patch sets the enabled
\* flag or, on a speed operation, the rate or, on a trim operation, both trim
\* times as given, or the operation's type (the patch is merged into the operation
\* without any check)
updateOperation(idx, patch) ==
    LET updated == [i \in 1..Len(operations) |->
                      IF i # idx THEN operations[i]
                      ELSE IF patch.kind = "enabled"
                      THEN [operations[i] EXCEPT !.enabled = patch.enabled]
                      ELSE IF patch.kind = "type"
                      THEN [operations[i] EXCEPT !.type = patch.type]
                      ELSE IF patch.kind = "trim"
                      THEN [operations[i] EXCEPT !.params = [startTime |-> patch.startTime,
                                                             endTime |-> patch.endTime]]
                      ELSE [operations[i] EXCEPT !.params = [rate |-> patch.rate]]]
        shouldUpdateTimeline == idx # 0 /\ updated[idx].type \in {"speed", "trim"}
        nextOpsByClip == Put(operationsByClip, selectedClipId, updated)
        resolvedClips == IF shouldUpdateTimeline
                         THEN resolveClipOverlaps(clips, nextOpsByClip, {selectedClipId},
                                                  linkedGroups)
                         ELSE clips
        nextTimelineDuration == IF shouldUpdateTimeline
                                THEN getTimelineDuration(resolvedClips, nextOpsByClip)
                                ELSE timelineDuration
    IN /\ idx \in 0..Len(operations)
       /\ patch.kind = "rate" => (idx # 0 /\ operations[idx].type = "speed")
       /\ patch.kind = "trim" => (idx # 0 /\ operations[idx].type = "trim")
       /\ IF selectedClipId = NoId
          THEN UNCHANGED <<operations, operationsByClip, clips, timelineDuration, currentTime>>
          ELSE /\ operations' = updated
               /\ operationsByClip' = nextOpsByClip
               /\ clips' = resolvedClips
               /\ timelineDuration' = nextTimelineDuration
               /\ currentTime' = IF shouldUpdateTimeline
                                 THEN clampTimelineTime(currentTime, nextTimelineDuration)
                                 ELSE currentTime
       /\ lastCmd' = "updateOperation"
       /\ UNCHANGED <<selectedClipId, selectedClipIds, lastSelectedClipId, linkedGroups,
                      clipboard, historyPast, historyFuture, videoTrackCount, audioTrackCount,
                      playing, nextId, importJob, mergeJob, exportVars, sideVars>>
       /\ InBounds

OpPatches == {[kind |-> "enabled", enabled |-> b] : b \in BOOLEAN}
             \cup {[kind |-> "rate", rate |-> r] : r \in SpeedRates}

\* trims a patch may store: starting before the media, ending past it, and ending
\* before it starts
StoredTrims == {<<-500, 500>>, <<500, 2500>>, <<2500, -500>>}
TrimPatches == {[kind |-> "trim", startTime |-> p[1], endTime |-> p[2]] : p \in StoredTrims}

\* patches that name a type: Partial<MediaOperation> has the field
TypePatches == {[kind |-> "type", type |-> t] : t \in OpTypes}

setTrim(pStart, pEnd) ==
    LET selectedClip == FindClip(clips, selectedClipId)
        bounds == getClipTrimBounds(selectedClip)
        newTrim(current) ==
            LET startCandidate == IF pStart # Undef THEN pStart ELSE current.startTime
                endCandidate == IF pEnd # Undef THEN pEnd ELSE current.endTime
                s0 == Max2(bounds.min, Min2(startCandidate, bounds.max))
                e0 == Max2(s0, Min2(endCandidate, bounds.max))
                tooShort == e0 - s0 < MIN_VISIBLE
                moveStart == pStart # Undef /\ pEnd = Undef
                nextStart == IF tooShort /\ moveStart THEN Max2(bounds.min, e0 - MIN_VISIBLE)
                             ELSE s0
                nextEnd == IF tooShort /\ ~moveStart THEN Min2(bounds.max, s0 + MIN_VISIBLE)
                           ELSE e0
            IN [startTime |-> nextStart, endTime |-> nextEnd]
        updated == [i \in 1..Len(operations) |->
                      IF operations[i].type # "trim" THEN operations[i]
                      ELSE [operations[i] EXCEPT !.enabled = TRUE,
                                                 !.params = newTrim(operations[i].params)]]
        newOpsByClip == Put(operationsByClip, selectedClipId, updated)
        resolvedClips == resolveClipOverlaps(clips, newOpsByClip, {selectedClipId}, linkedGroups)
        nextTimelineDuration == getTimelineDuration(resolvedClips, newOpsByClip)
    IN /\ IF selectedClipId = NoId \/ selectedClip = NoClip
          THEN UNCHANGED <<operations, operationsByClip, clips, timelineDuration, currentTime,
                           historyPast, historyFuture>>
          ELSE /\ operations' = updated
               /\ operationsByClip' = newOpsByClip
               /\ clips' = resolvedClips
               /\ timelineDuration' = nextTimelineDuration
               /\ currentTime' = clampTimelineTime(currentTime, nextTimelineDuration)
               /\ historyPast' = Append(historyPast, takeSnapshot)
               /\ historyFuture' = <<>>
       /\ lastCmd' = "setTrim"
       /\ UNCHANGED <<selectedClipId, selectedClipIds, lastSelectedClipId, linkedGroups,
                      clipboard, videoTrackCount, audioTrackCount, playing,
                      nextId, importJob, mergeJob, exportVars, sideVars>>
       /\ InBounds

\* ops.map((op) => op.type === t ? { ...op, enabled, params } : op)
SetOp(ops, t, enabled, params) ==
    [i \in 1..Len(ops) |->
        IF ops[i].type = t THEN [ops[i] EXCEPT !.enabled = enabled, !.params = params]
        ELSE ops[i]]

setSpeed(rate) ==
    LET selectedClip == FindClip(clips, selectedClipId)
        targetIds == IF IsLinked(linkedGroups, selectedClip.groupId)
                     THEN {clips[i].id : i \in {j \in 1..Len(clips) :
                                                  clips[j].groupId = selectedClip.groupId}}
                     ELSE {selectedClipId}
        newOpsByClip ==
            Override(operationsByClip,
                [id \in targetIds |->
                    SetOp(OpsOrDefault(operationsByClip, id, FindClip(clips, id).duration),
                          "speed", rate # 1, [rate |-> rate])])
        resolvedClips == resolveClipOverlaps(clips, newOpsByClip, targetIds, linkedGroups)
        nextTimelineDuration == getTimelineDuration(resolvedClips, newOpsByClip)
    IN /\ IF selectedClipId = NoId \/ selectedClip = NoClip
          THEN UNCHANGED <<operations, operationsByClip, clips, timelineDuration, currentTime,
                           historyPast, historyFuture>>
          ELSE /\ operations' = OpsOfSelected(newOpsByClip, selectedClipId, operations)
               /\ operationsByClip' = newOpsByClip
               /\ clips' = resolvedClips
               /\ timelineDuration' = nextTimelineDuration
               /\ currentTime' = clampTimelineTime(currentTime, nextTimelineDuration)
               /\ historyPast' = Append(historyPast, takeSnapshot)
               /\ historyFuture' = <<>>
       /\ lastCmd' = "setSpeed"
       /\ UNCHANGED <<selectedClipId, selectedClipIds, lastSelectedClipId, linkedGroups,
                      clipboard, videoTrackCount, audioTrackCount, playing,
                      nextId, importJob, mergeJob, exportVars, sideVars>>
       /\ InBounds

\* setVolume and setPitch differ only in the operation type they write
SetAudioParam(t, percent, cmd) ==
    LET targetId == getLinkedAudioClipId(clips, linkedGroups, selectedClipId)
        targetClip == FindClip(clips, targetId)
        updated == SetOp(OpsOrDefault(operationsByClip, targetId, targetClip.duration),
                         t, percent # 100, [percent |-> percent])
    IN /\ IF targetId = NoId \/ targetClip = NoClip
          THEN UNCHANGED <<operations, operationsByClip, historyPast, historyFuture>>
          ELSE /\ operations' = IF targetId = selectedClipId THEN updated ELSE operations
               /\ operationsByClip' = Put(operationsByClip, targetId, updated)
               /\ historyPast' = Append(historyPast, takeSnapshot)
               /\ historyFuture' = <<>>
       /\ lastCmd' = cmd
       /\ UNCHANGED <<clips, selectedClipId, selectedClipIds, lastSelectedClipId, linkedGroups,
                      clipboard, timelineDuration, videoTrackCount, audioTrackCount,
                      currentTime, playing, nextId, importJob, mergeJob, exportVars, sideVars>>
       /\ InBounds

setVolume(percent) == SetAudioParam("volume", percent, "setVolume")

setPitch(percent) == SetAudioParam("pitch", percent, "setPitch")

toggleOperation(type, enabled) ==
    LET isAudioOnly == type \in {"volume", "pitch"}
        targetId == IF isAudioOnly
                    THEN getLinkedAudioClipId(clips, linkedGroups, selectedClipId)
                    ELSE selectedClipId
        targetClip == FindClip(clips, targetId)
        ops == OpsOrDefault(operationsByClip, targetId, targetClip.duration)
        updated == [i \in 1..Len(ops) |->
                      IF ops[i].type = type THEN [ops[i] EXCEPT !.enabled = enabled]
                      ELSE ops[i]]
        newOpsByClip == Put(operationsByClip, targetId, updated)
        shouldUpdateTimeline == type \in {"speed", "trim"}
        resolvedClips == IF shouldUpdateTimeline
                         THEN resolveClipOverlaps(clips, newOpsByClip, {targetId}, linkedGroups)
                         ELSE clips
        nextTimelineDuration == IF shouldUpdateTimeline
                                THEN getTimelineDuration(resolvedClips, newOpsByClip)
                                ELSE timelineDuration
    IN /\ IF selectedClipId = NoId \/ targetId = NoId \/ targetClip = NoClip
          THEN UNCHANGED <<operations, operationsByClip, clips, timelineDuration, currentTime>>
          ELSE /\ operations' = IF targetId = selectedClipId THEN updated ELSE operations
               /\ operationsByClip' = newOpsByClip
               /\ clips' = resolvedClips
               /\ timelineDuration' = nextTimelineDuration
               /\ currentTime' = IF shouldUpdateTimeline
                                 THEN clampTimelineTime(currentTime, nextTimelineDuration)
                                 ELSE currentTime
       /\ lastCmd' = "toggleOperation"
       /\ UNCHANGED <<selectedClipId, selectedClipIds, lastSelectedClipId, linkedGroups,
                      clipboard, historyPast, historyFuture, videoTrackCount, audioTrackCount,
                      playing, nextId, importJob, mergeJob, exportVars, sideVars>>
       /\ InBounds

\* ------------------------------------------------------------ merge
\* getMergeSelectionMeta that asks for two groups only, whatever their tracks
MergeMetaIgnoringTracks(cs, selIds) ==
    LET selectedClips == FilterClips(cs, SeqToSet(selIds))
        gs == GroupIds(selectedClips)
    IN [selectedClips |-> selectedClips, logicalSelectionCount |-> Cardinality(gs),
        hasVideoSelection |-> \E i \in 1..Len(selectedClips) : selectedClips[i].track = "video",
        hasAudioSelection |-> \E i \in 1..Len(selectedClips) : selectedClips[i].track = "audio",
        canMerge |-> Cardinality(gs) >= 2,
        disabledReason |-> IF Cardinality(gs) >= 2 THEN "none" ELSE "fewerThanTwo"]

\* getMergeSelectionMeta(clips, selectedClipIds)
getMergeSelectionMeta(cs, selIds) ==
    LET selectedClips == FilterClips(cs, SeqToSet(selIds))
        gs == GroupIds(selectedClips)
        hasV(g) == \E i \in 1..Len(selectedClips) :
                      selectedClips[i].groupId = g /\ selectedClips[i].track = "video"
        hasA(g) == \E i \in 1..Len(selectedClips) :
                      selectedClips[i].groupId = g /\ selectedClips[i].track = "audio"
        hasVideoSelection == \E g \in gs : hasV(g)
        hasAudioSelection == \E g \in gs : hasA(g)
        allGroupsHaveVideo == gs # {} /\ \A g \in gs : hasV(g)
        allGroupsHaveAudio == gs # {} /\ \A g \in gs : hasA(g)
        isUniformTrackSelection ==
            \/ allGroupsHaveVideo /\ ~hasAudioSelection
            \/ allGroupsHaveAudio /\ ~hasVideoSelection
            \/ allGroupsHaveVideo /\ allGroupsHaveAudio
        disabledReason == IF selectedClips = <<>> THEN "empty"
                          ELSE IF ~isUniformTrackSelection THEN "notUniform"
                          ELSE IF Cardinality(gs) < 2 THEN "fewerThanTwo"
                          ELSE "none"
    IN [selectedClips |-> selectedClips, logicalSelectionCount |-> Cardinality(gs),
        hasVideoSelection |-> hasVideoSelection, hasAudioSelection |-> hasAudioSelection,
        canMerge |-> disabledReason = "none", disabledReason |-> disabledReason]

\* selectedClips.sort(by startTime).find(track): the earliest clip of a track
\* (the sort is stable, so ties go to the earlier clip of the list)
EarliestOnTrack(cs, track) ==
    LET hits == {i \in 1..Len(cs) : cs[i].track = track}
    IN IF hits = {} THEN NoClip
       ELSE cs[CHOOSE i \in hits : \A j \in hits :
                   cs[i].startTime < cs[j].startTime
                   \/ (cs[i].startTime = cs[j].startTime /\ i <= j)]

\* mergeSelectedClips up to its first await
MergeStart ==
    LET meta == getMergeSelectionMeta(clips, selectedClipIds)
        selectedClips == meta.selectedClips
        minStart == SeqMin([i \in 1..Len(selectedClips) |-> selectedClips[i].startTime])
        normalizedClips == [i \in 1..Len(selectedClips) |->
                              [selectedClips[i] EXCEPT !.startTime = Max2(0, @ - minStart)]]
        normalizedOpsByClip == [id \in ClipIds(selectedClips) |->
                                  OpsOrDefault(operationsByClip, id, FindClip(clips, id).duration)]
        hasVideoSelection == \E i \in 1..Len(selectedClips) :
                                selectedClips[i].track = "video" /\ selectedClips[i].mediaInfo.hasVideo
        hasAudioSelection == \E i \in 1..Len(selectedClips) :
                                selectedClips[i].track = "audio" /\ selectedClips[i].mediaInfo.hasAudio
    IN /\ mergeJob.pc = "idle"
       /\ IF ~meta.canMerge
          THEN /\ mergeJob' = NoJob
               /\ lastCmd' = "mergeSelectedClips:disabled"
          ELSE IF ~hasVideoSelection /\ ~hasAudioSelection
          THEN /\ mergeJob' = NoJob
               /\ lastCmd' = "mergeSelectedClips:noStreams"
          ELSE /\ mergeJob' = [pc |-> "rendering",
                               selectedIdSet |-> SeqToSet(selectedClipIds),
                               selectionLength |-> Len(selectedClipIds),
                               selectedClips |-> selectedClips,
                               normalizedOpsByClip |-> normalizedOpsByClip,
                               minStart |-> minStart,
                               hasVideoSelection |-> hasVideoSelection,
                               hasAudioSelection |-> hasAudioSelection,
                               firstVideo |-> EarliestOnTrack(selectedClips, "video"),
                               firstAudio |-> EarliestOnTrack(selectedClips, "audio"),
                               outDuration |-> getTimelineDuration(normalizedClips,
                                                                   normalizedOpsByClip)]
               /\ lastCmd' = "mergeSelectedClips:start"
       /\ UNCHANGED <<storeVars, nextId, importJob, exportVars, sideVars>>

\* the unchangedSelection test that compares the lengths only
SameLengthSelection(latestIds, capturedLength, selectedIdSet) ==
    Len(latestIds) = capturedLength

\* latest.selectedClipIds.length === state.selectedClipIds.length
\*   && latest.selectedClipIds.every((id) => selectedIdSet.has(id))
UnchangedSelection(latestIds, capturedLength, selectedIdSet) ==
    /\ Len(latestIds) = capturedLength
    /\ \A i \in 1..Len(latestIds) : latestIds[i] \in selectedIdSet

MergeOutcomes == {"dialogCancelled", "exportFailed", "probeFailed", "ok"}

\* mergeSelectedClips from the save dialog's answer to its finally block
MergeFinish(outcome) ==
    LET job == mergeJob
        unchangedSelection == UnchangedSelection(selectedClipIds, job.selectionLength,
                                                 job.selectedIdSet)
        mergedInfo == [hasVideo |-> job.hasVideoSelection, hasAudio |-> job.hasAudioSelection,
                       duration |-> job.outDuration]
        mergedGroupId == nextId
        makeVideo == job.hasVideoSelection /\ mergedInfo.hasVideo /\ job.firstVideo # NoClip
        makeAudio == job.hasAudioSelection /\ mergedInfo.hasAudio /\ job.firstAudio # NoClip
        vId == nextId + 1
        aId == IF makeVideo THEN nextId + 2 ELSE nextId + 1
        createdClips ==
            (IF makeVideo
             THEN <<NewClip(vId, mergedGroupId, "video", job.firstVideo.trackIndex,
                            job.minStart, mergedInfo)>> ELSE <<>>)
            \o (IF makeAudio
                THEN <<NewClip(aId, mergedGroupId, "audio", job.firstAudio.trackIndex,
                               job.minStart, mergedInfo)>> ELSE <<>>)
        newOpsByClip ==
            Override(Remove(operationsByClip, job.selectedIdSet),
                     [id \in ClipIds(createdClips) |-> createDefaultOperations(mergedInfo.duration)])
        remainingClips == FilterClips(clips, ClipIds(clips) \ job.selectedIdSet)
        nextLinkedGroups == Put(linkedGroups, mergedGroupId, TRUE)
        resolvedClips == resolveClipOverlaps(remainingClips \o createdClips, newOpsByClip,
                                             ClipIds(createdClips), nextLinkedGroups)
        nextSelectedClipId == PreferVideoId(createdClips)
        selectedClip == FindClip(resolvedClips, nextSelectedClipId)
        nextTimelineDuration == getTimelineDuration(resolvedClips, newOpsByClip)
    IN /\ mergeJob.pc = "rendering"
       /\ IF outcome # "ok"
          THEN /\ UNCHANGED <<storeVars, nextId>>
               /\ lastCmd' = "mergeSelectedClips:" \o outcome
          ELSE IF ~unchangedSelection
          THEN /\ UNCHANGED <<storeVars, nextId>>
               /\ lastCmd' = "mergeSelectedClips:selectionChanged"
          ELSE IF createdClips = <<>>
          THEN /\ UNCHANGED <<storeVars, nextId>>
               /\ lastCmd' = "mergeSelectedClips:noOutput"
          ELSE /\ clips' = resolvedClips
               /\ operationsByClip' = newOpsByClip
               /\ selectedClipId' = nextSelectedClipId
               /\ selectedClipIds' = <<nextSelectedClipId>>
               /\ lastSelectedClipId' = nextSelectedClipId
               /\ operations' = IF selectedClip # NoClip
                                THEN OpsOrEmpty(newOpsByClip, selectedClip.id) ELSE <<>>
               /\ timelineDuration' = nextTimelineDuration
               /\ currentTime' = IF selectedClip # NoClip
                                 THEN clampTimelineTime(selectedClip.startTime, nextTimelineDuration)
                                 ELSE clampTimelineTime(currentTime, nextTimelineDuration)
               /\ linkedGroups' = nextLinkedGroups
               /\ historyPast' = Append(historyPast, takeSnapshot)
               /\ historyFuture' = <<>>
               /\ nextId' = nextId + 1 + Len(createdClips)
               /\ lastCmd' = "mergeSelectedClips"
               /\ UNCHANGED <<clipboard, videoTrackCount, audioTrackCount, playing>>
       /\ mergeJob' = NoJob
       /\ UNCHANGED <<importJob, exportVars, sideVars>>
       /\ InBounds

\* ------------------------------------------------------------ player
\* the first clip of cs with the lowest trackIndex
LowestTrack(cs) ==
    cs[CHOOSE i \in 1..Len(cs) :
          \A j \in 1..Len(cs) :
              cs[i].trackIndex < cs[j].trackIndex
              \/ (cs[i].trackIndex = cs[j].trackIndex /\ i <= j)]

RangeHolds(r, time) == r.visibleDuration > 0 /\ time >= r.start /\ time < r.end

PickCandidate(candidates, videos) ==
    IF candidates = <<>> THEN NoClip
    ELSE IF videos # <<>> THEN LowestTrack(videos)
    ELSE candidates[1]

PickAmong(candidates) ==
    PickCandidate(candidates, SelectSeq(candidates, LAMBDA c : c.track = "video"))

\* findClipAtTime(time): the clip under the playhead, video first
findClipAtTime(time) ==
    PickAmong(SelectSeq(clips,
        LAMBDA c : RangeHolds(getClipTimelineRange(c, operationsByClip), time)))

SafeEnd == IF timelineDuration > 0 THEN Max2(0, timelineDuration - CLAMP_EPS) ELSE 0

clampTimelineTimeSafe(time) == Max2(0, Min2(time, SafeEnd))

\* commitTimelineTime(time) followed by the store's setCurrentTime
CommittedTime(time) == Max2(0, Min2(clampTimelineTimeSafe(time), timelineDuration))

FrameDeltas == {500}
VideoClock == {1000, 2000}

\* the time a tick commits while a playing <video> drives the clock
VideoDrivenTime(active, range, rawTime) ==
    IF rawTime >= range.trimEnd THEN range.end + BOUNDARY_EPSILON
    ELSE mediaTimeToTimelineTime(active, operationsByClip, rawTime)

\* one tick of startTimeLoop: frame delta, the <video> element's paused flag
\* and its media clock are what the host hands in
PlayerTick(delta, videoPaused, rawTime) ==
    /\ playing
    /\ IF currentTime >= timelineDuration
       THEN /\ currentTime' = CommittedTime(SafeEnd)
            /\ playing' = FALSE
       ELSE \E active \in {findClipAtTime(currentTime)} :
            IF active # NoClip /\ active.track = "video"
            THEN IF videoPaused
                 THEN UNCHANGED <<currentTime, playing>>
                 ELSE \E range \in {getClipTimelineRange(active, operationsByClip)} :
                      /\ rawTime < range.trimEnd =>
                            (Min2(range.trimEnd, Max2(range.trimStart, rawTime))
                                - range.trimStart) % range.speedRate = 0
                      /\ currentTime' = CommittedTime(VideoDrivenTime(active, range, rawTime))
                      /\ UNCHANGED playing
            ELSE /\ currentTime' = CommittedTime(currentTime + delta)
                 /\ UNCHANGED playing
    /\ lastCmd' = "player:tick"
    /\ UNCHANGED <<clips, operationsByClip, operations, selectedClipId, selectedClipIds,
                   lastSelectedClipId, linkedGroups, clipboard, historyPast, historyFuture,
                   timelineDuration, videoTrackCount, audioTrackCount,
                   nextId, importJob, mergeJob, exportVars, sideVars>>

\* onLoadedMetadata: the <video> element reports the duration of its source
OnLoadedMetadata(videoDuration, autoPlay) ==
    /\ \E active \in {findClipAtTime(currentTime)} :
       IF active # NoClip
       THEN SetClipDurationBody(active.id, videoDuration)
       ELSE UNCHANGED <<clips, operations, operationsByClip, timelineDuration, currentTime>>
    /\ playing' = IF autoPlay THEN TRUE ELSE playing
    /\ lastCmd' = "player:loadedmetadata"
    /\ UNCHANGED <<selectedClipId, selectedClipIds, lastSelectedClipId, linkedGroups,
                   clipboard, historyPast, historyFuture, videoTrackCount, audioTrackCount,
                   nextId, importJob, mergeJob, exportVars, sideVars>>
    /\ InBounds

\* findClipAtTime(t) || findNextClipAfter(t): is there a clip at or after t
HasClipAtOrAfter(t) ==
    \/ findClipAtTime(t) # NoClip
    \/ \E i \in 1..Len(clips) :
          LET r == getClipTimelineRange(clips[i], operationsByClip)
          IN r.visibleDuration > 0 /\ r.start >= t - BOUNDARY_EPSILON

\* onEnded: the <video> element ran out of media
OnEnded ==
    /\ \E active \in {findClipAtTime(currentTime)} :
       IF active = NoClip \/ active.track # "video"
       THEN UNCHANGED <<currentTime, playing>>
       ELSE \E target \in {Min2(getClipTimelineRange(active, operationsByClip).end, SafeEnd)} :
            /\ currentTime' = Max2(0, Min2(target, timelineDuration))
            /\ playing' = IF HasClipAtOrAfter(target + 10) THEN playing ELSE FALSE
    /\ lastCmd' = "player:ended"
    /\ UNCHANGED <<clips, operationsByClip, operations, selectedClipId, selectedClipIds,
                   lastSelectedClipId, linkedGroups, clipboard, historyPast, historyFuture,
                   timelineDuration, videoTrackCount, audioTrackCount,
                   nextId, importJob, mergeJob, exportVars, sideVars>>

\* togglePlay: start from the playhead (from 0 when it rests on the end), or pause
togglePlay ==
    /\ IF ~playing
       THEN /\ currentTime' = (IF timelineDuration > 0 /\ currentTime >= SafeEnd
                               THEN 0 ELSE currentTime)
            /\ playing' = TRUE
       ELSE /\ playing' = FALSE
            /\ UNCHANGED currentTime
    /\ lastCmd' = "player:togglePlay"
    /\ UNCHANGED <<clips, operationsByClip, operations, selectedClipId, selectedClipIds,
                   lastSelectedClipId, linkedGroups, clipboard, historyPast, historyFuture,
                   timelineDuration, videoTrackCount, audioTrackCount,
                   nextId, importJob, mergeJob, exportVars, sideVars>>

\* ------------------------------------------------------------ export service
ExitCodes == {0, 1}

\* EXPORT_START handler up to the await inside startTimelineExport/startExport
ExportStart(hasWindow) ==
    /\ Len(exportJobs) < MaxJobs
    /\ IF ~hasWindow
       THEN /\ exportJobs' = Append(exportJobs, [proc |-> "none", answered |-> TRUE,
                                                 success |-> FALSE, event |-> "none"])
            /\ UNCHANGED currentExportProcess
       ELSE /\ exportJobs' = Append(exportJobs, [proc |-> "running", answered |-> FALSE,
                                                 success |-> FALSE, event |-> "none"])
            /\ currentExportProcess' = Len(exportJobs) + 1
    /\ lastCmd' = "export:start"
    /\ UNCHANGED <<storeVars, nextId, importJob, mergeJob, sideVars>>

\* the child process closes: runFFmpeg settles its promise, startTimelineExport
\* runs its try/catch/finally and the handler answers the request
ExportProcessClose(j, code) ==
    /\ j \in 1..Len(exportJobs)
    /\ exportJobs[j].proc \in {"running", "killed"}
    /\ exportJobs[j].proc = "killed" => code # 0
    /\ exportJobs' = [exportJobs EXCEPT ![j] =
                         [proc |-> IF code = 0 THEN "exit0" ELSE "exitNonZero",
                          answered |-> TRUE,
                          success |-> TRUE,
                          event |-> IF code = 0 THEN "EXPORT_COMPLETE" ELSE "EXPORT_ERROR"]]
    /\ currentExportProcess' = NoId
    /\ lastCmd' = "export:close"
    /\ UNCHANGED <<storeVars, nextId, importJob, mergeJob, sideVars>>

\* EXPORT_CANCEL handler
cancelExport ==
    /\ IF currentExportProcess # NoId
       THEN /\ exportJobs' = [exportJobs EXCEPT ![currentExportProcess].proc =
                                 IF @ = "running" THEN "killed" ELSE @]
            /\ currentExportProcess' = NoId
       ELSE UNCHANGED exportVars
    /\ lastCmd' = "export:cancel"
    /\ UNCHANGED <<storeVars, nextId, importJob, mergeJob, sideVars>>

\* ------------------------------------------------------------ snap engine
\* useSnap: the hook's state is lockedSnapTime and snapLineTime; every render
\* rebuilds checkSnap and checkMoveSnap over the current state, and the drag
\* handler is re-registered on every render, so a check sees the lock the
\* previous check left.  Times are ticks, thresholds are pixels converted
\* with the zoom factor of the call.
SNAP_THRESHOLD_PX == 10
\* Math.abs(p - range.start) > 0.001
SNAP_EXCLUDE_EPS == 10

enterThreshold(pixelsPerSecond) == (SNAP_THRESHOLD_PX * 10000) \div pixelsPerSecond
\* a hold no wider than the entry: no hysteresis
ExitWithoutHysteresis(pixelsPerSecond) == (SNAP_THRESHOLD_PX * 10000) \div pixelsPerSecond
exitThreshold(pixelsPerSecond) == (SNAP_THRESHOLD_PX * 3 * 10000) \div (2 * pixelsPerSecond)

\* points.push(range.start, range.end) for every clip, after the playhead
RECURSIVE ClipEdgePoints(_, _)
ClipEdgePoints(cs, obc) ==
    IF cs = <<>> THEN {}
    ELSE With(getClipTimelineRange(Head(cs), obc), LAMBDA range :
            {range.start, range.end} \cup ClipEdgePoints(Tail(cs), obc))

\* deduplicated and sorted ascending
RECURSIVE SortedPoints(_)
SortedPoints(ps) ==
    IF ps = {} THEN <<>>
    ELSE With(CHOOSE p \in ps : \A q \in ps : p <= q, LAMBDA p :
            <<p>> \o SortedPoints(ps \ {p}))

snapPoints == SortedPoints({currentTime} \cup ClipEdgePoints(clips, operationsByClip))

getFilteredPoints(excludeClipId) ==
    IF excludeClipId # NoId /\ excludeClipId \in ClipIds(clips)
    THEN With(getClipTimelineRange(FindClip(clips, excludeClipId), operationsByClip),
              LAMBDA range :
                 SeqFilter(snapPoints,
                           {p \in SeqToSet(snapPoints) :
                               /\ Abs(p - range.start) > SNAP_EXCLUDE_EPS
                               /\ Abs(p - range.end) > SNAP_EXCLUDE_EPS}))
    ELSE snapPoints

\* the candidate loop of checkSnap: best is [dist, time], dist Undef for Infinity
RECURSIVE NearestPoint(_, _, _, _)
NearestPoint(points, time, enter, best) ==
    IF points = <<>> THEN best
    ELSE With(Abs(time - Head(points)), LAMBDA dist :
            NearestPoint(Tail(points), time, enter,
                IF dist < enter /\ (best.dist = Undef \/ dist < best.dist)
                THEN [dist |-> dist, time |-> Head(points), isEnd |-> FALSE]
                ELSE best))

\* the candidate loop of checkMoveSnap: the start edge is tried before the end edge
RECURSIVE NearestEdgePoint(_, _, _, _, _)
NearestEdgePoint(points, startTime, endTime, enter, best) ==
    IF points = <<>> THEN best
    ELSE With(Abs(startTime - Head(points)), LAMBDA distStart :
         With(IF distStart < enter /\ (best.dist = Undef \/ distStart < best.dist)
              THEN [dist |-> distStart, time |-> Head(points), isEnd |-> FALSE]
              ELSE best, LAMBDA afterStart :
         With(Abs(endTime - Head(points)), LAMBDA distEnd :
            NearestEdgePoint(Tail(points), startTime, endTime, enter,
                IF distEnd < enter /\ (afterStart.dist = Undef \/ distEnd < afterStart.dist)
                THEN [dist |-> distEnd, time |-> Head(points), isEnd |-> TRUE]
                ELSE afterStart))))

\* what a check returns and leaves in the hook: the lock, the line, the result
SnapOutcome(locked, line, time, snapped) ==
    [locked |-> locked, line |-> line, time |-> time, snapped |-> snapped]

\* the decision of both checks after the candidate loop; lockedDist is the
\* distance of the dragged edge(s) to the held point, lockedStart the start
\* the held point gives, bestStart the start the candidate gives
SnapDecision(best, locked, lockedDist, lockedStart, bestStart, start, exit) ==
    With(best.dist # Undef, LAMBDA hasCandidate :
        IF locked # NoSnapTime /\ hasCandidate /\ best.time # locked /\ best.dist <= lockedDist
        THEN SnapOutcome(best.time, best.time, bestStart, TRUE)
        ELSE IF locked # NoSnapTime /\ lockedDist <= exit
        THEN SnapOutcome(locked, locked, lockedStart, TRUE)
        ELSE IF hasCandidate
        THEN SnapOutcome(best.time, best.time, bestStart, TRUE)
        ELSE SnapOutcome(NoSnapTime, NoSnapTime, start, FALSE))

NoCandidate(time) == [dist |-> Undef, time |-> time, isEnd |-> FALSE]

SnapCheckResult(time, pixelsPerSecond, excludeClipId) ==
    With(NearestPoint(getFilteredPoints(excludeClipId), time,
                      enterThreshold(pixelsPerSecond), NoCandidate(time)), LAMBDA best :
        SnapDecision(best, lockedSnapTime, Abs(time - lockedSnapTime), lockedSnapTime,
                     best.time, time, exitThreshold(pixelsPerSecond)))

MoveSnapCheckResult(startTime, duration, pixelsPerSecond, excludeClipId) ==
    With(NearestEdgePoint(getFilteredPoints(excludeClipId), startTime, startTime + duration,
                          enterThreshold(pixelsPerSecond), NoCandidate(startTime)), LAMBDA best :
    With(Abs(startTime - lockedSnapTime), LAMBDA distStart :
    With(Abs(startTime + duration - lockedSnapTime), LAMBDA distEnd :
        SnapDecision(best, lockedSnapTime, Min2(distStart, distEnd),
                     IF distEnd < distStart THEN lockedSnapTime - duration ELSE lockedSnapTime,
                     IF best.isEnd THEN best.time - duration ELSE best.time,
                     startTime, exitThreshold(pixelsPerSecond)))))

\* the hook's state after a check, with the call and its result kept for the
\* properties: point is the snap line the check left
SnapStep(call, out, time, duration, pixelsPerSecond) ==
    /\ lockedSnapTime' = out.locked
    /\ snapLineTime' = out.line
    /\ snapResult' = [call |-> call, time |-> out.time, snapped |-> out.snapped,
                      point |-> out.line, argTime |-> time, argDuration |-> duration,
                      pixelsPerSecond |-> pixelsPerSecond]
    /\ lastCmd' = call
    /\ UNCHANGED <<storeVars, nextId, importJob, mergeJob, exportVars, engineVars>>

checkSnap(time, pixelsPerSecond, excludeClipId) ==
    SnapStep("checkSnap", SnapCheckResult(time, pixelsPerSecond, excludeClipId),
             time, 0, pixelsPerSecond)

checkMoveSnap(startTime, duration, pixelsPerSecond, excludeClipId) ==
    SnapStep("checkMoveSnap",
             MoveSnapCheckResult(startTime, duration, pixelsPerSecond, excludeClipId),
             startTime, duration, pixelsPerSecond)

\* mouseup: the drag is over
clearSnapLine ==
    /\ lockedSnapTime' = NoSnapTime
    /\ snapLineTime' = NoSnapTime
    /\ snapResult' = [call |-> "clearSnapLine"]
    /\ lastCmd' = "clearSnapLine"
    /\ UNCHANGED <<storeVars, nextId, importJob, mergeJob, exportVars, engineVars>>

\* ------------------------------------------------------------ media engine
\* Tempos are exact fractions num/den in lowest terms; a filter value printed
\* with toFixed(4) is the number its text denotes, in ten-thousandths, and a
\* time printed with toFixed(3) is in milliseconds.
RECURSIVE GCD(_, _)
GCD(a, b) == IF b = 0 THEN a ELSE GCD(b, a % b)

Ratio(n, d) == With(GCD(n, d), LAMBDA g : [num |-> n \div g, den |-> d \div g])

\* Number.prototype.toFixed(4): the nearest multiple of 0.0001, the larger one on a tie
toFixed4(r) == (2 * r.num * 10000 + r.den) \div (2 * r.den)
\* Number.prototype.toFixed(3) of a time in ticks
toFixed3(t) == (t + 5) \div 10

\* one stage for the whole tempo, whatever its size
TempoChainUnsplit(targetTempo) == <<toFixed4(targetTempo)>>

\* the while loop of buildTempoChain and the final push; 'atempo=0.5' is
\* 5000 and 'atempo=2.0' is 20000
RECURSIVE TempoLoop(_, _)
TempoLoop(remaining, filters) ==
    IF 2 * remaining.num < remaining.den
    THEN TempoLoop(Ratio(remaining.num * 2, remaining.den), Append(filters, 5000))
    ELSE IF remaining.num > 2 * remaining.den
    THEN TempoLoop(Ratio(remaining.num, remaining.den * 2), Append(filters, 20000))
    ELSE Append(filters, toFixed4(remaining))

buildTempoChain(targetTempo) == TempoLoop(targetTempo, <<>>)

RESOLUTION_MAP(preset) ==
    CASE preset = "1080p" -> [w |-> 1920, h |-> 1080]
      [] preset = "720p" -> [w |-> 1280, h |-> 720]
      [] preset = "480p" -> [w |-> 854, h |-> 480]
      [] OTHER -> [w |-> 0, h |-> 0]

CRF_MAP(quality) ==
    CASE quality = "high" -> 18
      [] quality = "medium" -> 23
      [] quality = "low" -> 28
      [] OTHER -> 23

isAudioFormat(format) == format \in {"mp3", "wav", "flac", "aac", "opus"}

\* one command-line argument with its value: a number, a text or a filter list
Arg(opt, num, text, filters) == [opt |-> opt, num |-> num, text |-> text, filters |-> filters]
Filter(name, a, b) == [name |-> name, a |-> a, b |-> b]

getAudioCodecArgs(format) ==
    CASE format = "mp3" -> <<Arg("-c:a", Undef, "libmp3lame", <<>>), Arg("-b:a", Undef, "192k", <<>>)>>
      [] format = "wav" -> <<Arg("-c:a", Undef, "pcm_s16le", <<>>)>>
      [] format = "flac" -> <<Arg("-c:a", Undef, "flac", <<>>)>>
      [] format \in {"opus", "webm"} ->
            <<Arg("-c:a", Undef, "libopus", <<>>), Arg("-b:a", Undef, "160k", <<>>)>>
      [] OTHER -> <<Arg("-c:a", Undef, "aac", <<>>), Arg("-b:a", Undef, "192k", <<>>)>>

mapVp9Crf(x264Crf) == Max2(0, Min2(63, x264Crf + 10))
\* Math.round(100 - (x264Crf - 18) * 2.5), halves upward
mapWebpQuality(x264Crf) == Max2(35, Min2(95, (2 * (200 - (x264Crf - 18) * 5) + 2) \div 4))
getGifFps(inputFps) == IF inputFps <= 0 THEN 15 ELSE Max2(5, Min2(20, inputFps))

\* enabledOps.find((op) => op.type === type); NoOp when there is none
NoOp == [type |-> "none"]
FindEnabledOp(ops, type) ==
    With({i \in 1..Len(ops) : ops[i].enabled /\ ops[i].type = type}, LAMBDA found :
        IF found = {} THEN NoOp ELSE ops[CHOOSE i \in found : \A j \in found : i <= j])

buildFFmpegArgs(ops, mediaInfo, options) ==
    LET trim == FindEnabledOp(ops, "trim")
        speed == FindEnabledOp(ops, "speed")
        volume == FindEnabledOp(ops, "volume")
        pitch == FindEnabledOp(ops, "pitch")
        audioOnlyFormat == isAudioFormat(options.format)
        gifFormat == options.format = "gif"
        webpFormat == options.format = "webp"
        animatedImageFormat == gifFormat \/ webpFormat
        seek == IF trim # NoOp
                THEN <<Arg("-ss", toFixed3(trim.params.startTime), "", <<>>)>> ELSE <<>>
        limit == IF trim # NoOp
                 THEN <<Arg("-t", toFixed3(trim.params.endTime - trim.params.startTime), "", <<>>)>>
                 ELSE <<>>
        vFilters == (IF speed # NoOp THEN <<Filter("setpts", speed.params.rate, 0)>> ELSE <<>>)
                    \o (IF options.hasResolution
                        THEN <<Filter("scale", options.resolution.w, options.resolution.h)>>
                        ELSE <<>>)
        tempo == IF speed # NoOp
                 THEN [s \in 1..Len(buildTempoChain(Ratio(speed.params.rate, 1))) |->
                         Filter("atempo", buildTempoChain(Ratio(speed.params.rate, 1))[s], 0)]
                 ELSE <<>>
        gain == IF volume # NoOp
                THEN <<Filter("volume", Max2(0, volume.params.percent) * 100, 0)>> ELSE <<>>
        ratio == IF pitch # NoOp THEN Max2(1, pitch.params.percent) ELSE 100
        compensate == buildTempoChain(Ratio(100, ratio))
        shift == IF pitch # NoOp /\ pitch.params.percent # 100
                 THEN <<Filter("asetrate", (mediaInfo.sampleRate * ratio + 50) \div 100, 0),
                        Filter("aresample", mediaInfo.sampleRate, 0)>>
                      \o (IF speed = NoOp
                          THEN [s \in 1..Len(compensate) |-> Filter("atempo", compensate[s], 0)]
                          ELSE <<>>)
                 ELSE <<>>
        aFilters == tempo \o gain \o shift
        vf == IF vFilters # <<>> /\ mediaInfo.hasVideo /\ ~audioOnlyFormat /\ ~animatedImageFormat
              THEN <<Arg("-vf", Undef, "", vFilters)>> ELSE <<>>
        af == IF aFilters # <<>> /\ mediaInfo.hasAudio /\ ~animatedImageFormat
              THEN <<Arg("-af", Undef, "", aFilters)>> ELSE <<>>
        animated == vFilters \o <<Filter("fps", getGifFps(mediaInfo.fps), 0)>>
        video == IF ~audioOnlyFormat /\ mediaInfo.hasVideo
                 THEN IF gifFormat
                      THEN <<Arg("-filter_complex", Undef, "palettegen,paletteuse", animated),
                             Arg("-map", Undef, "[vout]", <<>>), Arg("-loop", 0, "", <<>>)>>
                      ELSE IF webpFormat
                      THEN <<Arg("-vf", Undef, "", animated), Arg("-loop", 0, "", <<>>),
                             Arg("-c:v", Undef, "libwebp", <<>>), Arg("-lossless", 0, "", <<>>),
                             Arg("-quality", mapWebpQuality(options.crf), "", <<>>),
                             Arg("-compression_level", 6, "", <<>>)>>
                      ELSE IF options.format = "webm"
                      THEN <<Arg("-c:v", Undef, "libvpx-vp9", <<>>), Arg("-b:v", 0, "", <<>>),
                             Arg("-crf", mapVp9Crf(options.crf), "", <<>>)>>
                      ELSE <<Arg("-c:v", Undef, "libx264", <<>>), Arg("-preset", Undef, "medium", <<>>),
                             Arg("-crf", options.crf, "", <<>>)>>
                 ELSE <<Arg("-vn", Undef, "", <<>>)>>
        audio == IF animatedImageFormat THEN <<Arg("-an", Undef, "", <<>>)>>
                 ELSE IF mediaInfo.hasAudio THEN getAudioCodecArgs(options.format)
                 ELSE <<Arg("-an", Undef, "", <<>>)>>
        faststart == IF options.format \in {"mp4", "mov"}
                     THEN <<Arg("-movflags", Undef, "+faststart", <<>>)>> ELSE <<>>
    IN  <<Arg("-y", Undef, "", <<>>)>> \o seek \o <<Arg("-i", Undef, "inputPath", <<>>)>> \o limit
        \o vf \o af \o video \o audio \o faststart \o <<Arg("output", Undef, "outputPath", <<>>)>>

\* startExport up to the command it hands to runFFmpeg
ExportCommand(mediaInfo, ops, exportOptions) ==
    buildFFmpegArgs(ops, mediaInfo,
        [crf |-> CRF_MAP(exportOptions.quality),
         hasResolution |-> exportOptions.resolution # "original",
         resolution |-> RESOLUTION_MAP(exportOptions.resolution),
         format |-> exportOptions.format])

\* the engine is asked for a tempo chain
BuildTempoChain ==
    /\ engineInput.fn = "buildTempoChain"
    /\ engineOutput = <<>>
    /\ engineOutput' = buildTempoChain(engineInput.targetTempo)
    /\ lastCmd' = "buildTempoChain"
    /\ UNCHANGED <<storeVars, nextId, importJob, mergeJob, exportVars, snapVars, engineInput>>

\* the engine is asked for the command of a single-file export
BuildExportCommand ==
    /\ engineInput.fn = "startExport"
    /\ engineOutput = <<>>
    /\ engineOutput' = ExportCommand(engineInput.mediaInfo, engineInput.operations,
                                     engineInput.exportOptions)
    /\ lastCmd' = "startExport"
    /\ UNCHANGED <<storeVars, nextId, importJob, mergeJob, exportVars, snapVars, engineInput>>

\* the passes a tempo chain loop is followed for
MaxTempoPasses == 12

TempoInRange(remaining) ==
    2 * remaining.num >= remaining.den /\ remaining.num <= 2 * remaining.den

\* one pass of the while loop of buildTempoChain on the remaining tempo
TempoPass(remaining) ==
    IF 2 * remaining.num < remaining.den
    THEN Ratio(remaining.num * 2, remaining.den)
    ELSE Ratio(remaining.num, remaining.den * 2)

\* the while loop has been left after at most `passes` passes
RECURSIVE TempoLoopEnds(_, _)
TempoLoopEnds(remaining, passes) ==
    IF TempoInRange(remaining) THEN TRUE
    ELSE IF passes = 0 \/ TempoPass(remaining) = remaining THEN FALSE
    ELSE TempoLoopEnds(TempoPass(remaining), passes - 1)

\* the buildTempoChain calls of buildTimelineFFmpegArgs: one per audio clip
\* with an enabled Speed, or with an enabled Pitch other than 100% and no Speed
TimelineTempoRequests(cs, obc) ==
    UNION {With(OpsOrEmpty(obc, cs[i].id), LAMBDA ops :
              With(FindEnabledOp(ops, "speed"), LAMBDA speed :
              With(FindEnabledOp(ops, "pitch"), LAMBDA pitch :
                 IF speed # NoOp THEN {Ratio(speed.params.rate, 1)}
                 ELSE IF pitch # NoOp /\ pitch.params.percent # 100
                 THEN {Ratio(100, Max2(1, pitch.params.percent))}
                 ELSE {}))) :
           i \in {j \in 1..Len(cs) : cs[j].track = "audio" /\ cs[j].mediaInfo.hasAudio}}

\* ------------------------------------------------------------ specifications
\* Three clips packed on one video lane, edited by drags, trims, splits and
\* deletions.
Next ==
    \/ nextId = 1 /\ ImportStart(<<"v", "v", "v">>)
    \/ ImportFinish
    \/ removeVideoTrack
    \/ \E g \in {3} \cap GroupIds(clips) : toggleGroupLink(g)
    \/ \E id \in {6} \cap ClipIds(clips) : moveClip(id, 3000, Undef, TRUE)
    \/ \E id \in {2} \cap ClipIds(clips) : trimClipEdge(id, "end", -1000, TRUE)
    \/ \E id \in {4} \cap ClipIds(clips) : deleteClip(id)
    \/ setCurrentTime(1000)
    \/ splitClipAtPlayhead

Spec == Init /\ [][Next]_vars

\* One clip that is trimmed, sped up, split and re-probed.
NextTrim ==
    \/ nextId = 1 /\ ImportStart(<<"v">>)
    \/ ImportFinish
    \/ \E id \in {2} \cap ClipIds(clips) : trimClipEdge(id, "start", 1000, TRUE)
    \/ \E id \in {2} \cap ClipIds(clips) : trimClipEdge(id, "end", -500, FALSE)
    \/ setSpeed(2)
    \/ \E t \in {500, 1500} : setCurrentTime(t)
    \/ splitClipAtPlayhead
    \/ \E id \in ClipIds(clips) : setClipDuration(id, 500)

SpecTrim == Init /\ [][NextTrim]_vars

\* One clip under recorded and unrecorded commands, undo and redo.
NextHistory ==
    \/ nextId = 1 /\ ImportStart(<<"v">>)
    \/ ImportFinish
    \/ \E id \in ClipIds(clips) : moveClip(id, 1000, Undef, TRUE)
    \/ \E g \in GroupIds(clips) : toggleGroupLink(g)
    \/ \E id \in ClipIds(clips) : deleteClip(id)
    \/ toggleOperation("speed", TRUE)
    \/ setCurrentTime(1000)
    \/ undo
    \/ redo

SpecHistory == Init /\ [][NextHistory]_vars

\* Three clips, a selection that keeps changing, and a merge in flight.
NextMerge ==
    \/ nextId = 1 /\ ImportStart(<<"v", "v", "v">>)
    \/ ImportFinish
    \/ \E id \in ClipIds(clips) : selectClip(id, "toggle")
    \/ MergeStart
    \/ \E outcome \in MergeOutcomes : MergeFinish(outcome)

SpecMerge == Init /\ [][NextMerge]_vars

\* The main process: export requests, their render jobs, cancellation.
NextExport ==
    \/ \E w \in BOOLEAN : ExportStart(w)
    \/ \E j \in 1..MaxJobs, code \in ExitCodes : ExportProcessClose(j, code)
    \/ cancelExport

SpecExport == Init /\ [][NextExport]_vars

\* Two clips and the player: the frame loop and the <video> element's events.
NextPlayer ==
    \/ nextId = 1 /\ ImportStart(<<"v", "v">>)
    \/ ImportFinish
    \/ \E p \in BOOLEAN : setPlaying(p)
    \/ setCurrentTime(1000)
    \/ \E d \in FrameDeltas, paused \in BOOLEAN, m \in VideoClock : PlayerTick(d, paused, m)
    \/ \E d \in ClipDurations, auto \in BOOLEAN : OnLoadedMetadata(d, auto)
    \/ OnEnded

SpecPlayer == Init /\ [][NextPlayer]_vars

\* A video-only file beside a complete A/V file: selections of mixed make-up.
NextMergeGuard ==
    \/ nextId = 1 /\ ImportStart(<<"v", "av">>)
    \/ ImportFinish
    \/ \E id \in ClipIds(clips) : selectClip(id, "toggle")
    \/ lastCmd = "loadFiles" /\ \E g \in {3} \cap GroupIds(clips) : toggleGroupLink(g)
    \/ MergeStart
    \/ \E outcome \in {"ok", "exportFailed"} : MergeFinish(outcome)

SpecMergeGuard == Init /\ [][NextMergeGuard]_vars

\* One A/V file: a video clip and its linked audio clip, trimmed at the start.
NextLinkedTrim ==
    \/ nextId = 1 /\ ImportStart(<<"av">>)
    \/ ImportFinish
    \/ \E g \in GroupIds(clips) : toggleGroupLink(g)
    \/ \E id \in {2} \cap ClipIds(clips), d \in TrimDeltas : trimClipEdge(id, "start", d, FALSE)
    \/ \E id \in {2} \cap ClipIds(clips) : setClipDuration(id, 1000)

SpecLinkedTrim == Init /\ [][NextLinkedTrim]_vars

\* Two clips selected together and dragged by one of them.
NextMultiMove ==
    \/ nextId = 1 /\ ImportStart(<<"v", "av">>)
    \/ ImportFinish
    \/ \E id \in ClipIds(clips) : selectClip(id, "toggle")
    \/ \E id \in SeqToSet(selectedClipIds), st \in {1000, 3000} : moveClip(id, st, Undef, TRUE)

SpecMultiMove == Init /\ [][NextMultiMove]_vars

\* Three clips on two lanes that fold into one, deleted singly or by selection.
NextDelete ==
    \/ nextId = 1 /\ ImportStart(<<"v", "v", "v">>)
    \/ ImportFinish
    \/ removeVideoTrack
    \/ \E id \in {4} \cap ClipIds(clips) : moveClip(id, 1000, Undef, FALSE)
    \/ \E id \in {6} \cap ClipIds(clips) : selectClip(id, "single")
    \/ \E id \in {2, 6} \cap ClipIds(clips) : deleteClip(id)
    \/ deleteSelectedClips

SpecDelete == Init /\ [][NextDelete]_vars

\* One A/V file whose group is linked or unlinked when the playhead splits it.
NextSplitLink ==
    \/ nextId = 1 /\ ImportStart(<<"av">>)
    \/ ImportFinish
    \/ \E g \in GroupIds(clips) : toggleGroupLink(g)
    \/ \E t \in {500, 1000, 1500} : setCurrentTime(t)
    \/ splitClipAtPlayhead

SpecSplitLink == Init /\ [][NextSplitLink]_vars

\* Clip commands called with an id that no clip has, between other commands.
NextMissingId ==
    \/ nextId = 1 /\ ImportStart(<<"v">>)
    \/ ImportFinish
    \/ \E g \in GroupIds(clips) : toggleGroupLink(g)
    \/ \E t \in {500, 1000} : setCurrentTime(t)
    \/ splitClipAtPlayhead
    \/ undo
    \/ \E st \in {0, 1000}, tr \in {Undef, 1} : moveClip(MissingId, st, tr, TRUE)
    \/ \E edge \in Edges, d \in TrimDeltas : trimClipEdge(MissingId, edge, d, TRUE)
    \/ deleteClip(MissingId)

SpecMissingId == Init /\ [][NextMissingId]_vars

\* Two groups on the timeline, the second unlinked or not right after the import,
\* copied in any selection and pasted at the playhead.
NextPaste ==
    \/ nextId = 1 /\ ImportStart(<<"v", "av">>)
    \/ ImportFinish
    \/ \E id \in {2} \cap ClipIds(clips) : selectClip(id, "single")
    \/ \E id \in {4} \cap ClipIds(clips), mode \in {"single", "toggle"} : selectClip(id, mode)
    \/ lastCmd = "loadFiles" /\ \E g \in {3} \cap GroupIds(clips) : toggleGroupLink(g)
    \/ copySelectedClips
    \/ pasteCopiedClips

SpecPaste == Init /\ [][NextPaste]_vars

\* One clip, at double speed or not, split at the playhead or not, whose stored trim
\* is patched to any pair of times and whose duration a probe may shorten.
NextResolve ==
    \/ nextId = 1 /\ ImportStart(<<"v">>)
    \/ ImportFinish
    \/ lastCmd = "loadFiles" /\ setSpeed(2)
    \/ Len(clips) = 1 /\ setCurrentTime(1000)
    \/ Len(clips) = 1 /\ splitClipAtPlayhead
    \/ \E id \in ClipIds(clips) : selectClip(id, "single")
    \/ \E idx \in {i \in 1..Len(operations) : operations[i].type = "trim"}, patch \in TrimPatches :
          updateOperation(idx, patch)
    \/ \E id \in {2} \cap ClipIds(clips) : setClipDuration(id, 1500)

SpecResolve == Init /\ [][NextResolve]_vars

\* One A/V file under commands that recompute the timeline's length (one trim of
\* the end, double speed) and commands that may leave it alone (selection, a patch
\* of the volume operation's flag, a patch of the speed operation's type).
NextDuration ==
    \/ nextId = 1 /\ ImportStart(<<"av">>)
    \/ ImportFinish
    \/ \E id \in ClipIds(clips) : selectClip(id, "single")
    \/ timelineDuration = FileDuration /\ \E id \in {3} \cap ClipIds(clips) :
          trimClipEdge(id, "end", -500, FALSE)
    \/ lastCmd = "trimClipEdge" /\ setSpeed(2)
    \/ \E idx \in {i \in 1..Len(operations) : operations[i].type = "volume"}, b \in BOOLEAN :
          updateOperation(idx, [kind |-> "enabled", enabled |-> b])
    \/ \E idx \in {i \in 1..Len(operations) : operations[i].type = "speed"} :
          updateOperation(idx, [kind |-> "type", type |-> "volume"])

SpecDuration == Init /\ [][NextDuration]_vars

\* One clip whose stored trim is patched past its bound, dragged to either place and
\* trimmed at its start edge in either direction.
NextStartTime ==
    \/ nextId = 1 /\ ImportStart(<<"v">>)
    \/ ImportFinish
    \/ \E idx \in {i \in 1..Len(operations) : operations[i].type = "trim"}, patch \in TrimPatches :
          updateOperation(idx, patch)
    \/ \E id \in {2} \cap ClipIds(clips), st \in {0, 1000} : moveClip(id, st, Undef, FALSE)
    \/ \E id \in {2} \cap ClipIds(clips), d \in {-500, 500} : trimClipEdge(id, "start", d, FALSE)

SpecStartTime == Init /\ [][NextStartTime]_vars

\* One clip whose operations are patched: any operation switched on or off, and the
\* volume and pitch operations given either of their two types.
NextOpTypes ==
    \/ nextId = 1 /\ ImportStart(<<"v">>)
    \/ ImportFinish
    \/ \E t \in {500, 1000} : setCurrentTime(t)
    \/ \E idx \in 1..Len(operations), b \in BOOLEAN :
          updateOperation(idx, [kind |-> "enabled", enabled |-> b])
    \/ \E idx \in {i \in 1..Len(operations) : operations[i].type \in {"volume", "pitch"}},
          patch \in {p \in TypePatches : p.type \in {"volume", "pitch"}} :
          updateOperation(idx, patch)

SpecOpTypes == Init /\ [][NextOpTypes]_vars

\* One A/V file whose selected clip is given speeds, volumes and pitches inside and
\* outside the ranges the sliders offer.
NextSetters ==
    \/ nextId = 1 /\ ImportStart(<<"av">>)
    \/ ImportFinish
    \/ \E id \in ClipIds(clips) : selectClip(id, "single")
    \/ setCurrentTime(1000)
    \/ \E rate \in {2, 20} : setSpeed(rate)
    \/ \E percent \in {50, 5000} : setVolume(percent)
    \/ \E percent \in {200, 10} : setPitch(percent)

SpecSetters == Init /\ [][NextSetters]_vars

\* One A/V file, linked or unlinked, with either clip selected, set to either speed,
\* the selected clip's speed operation retyped or not.
NextLinkedSpeed ==
    \/ nextId = 1 /\ ImportStart(<<"av">>)
    \/ ImportFinish
    \/ lastCmd = "loadFiles" /\ \E g \in GroupIds(clips) : toggleGroupLink(g)
    \/ \E id \in ClipIds(clips) : selectClip(id, "single")
    \/ \E rate \in SpeedRates : setSpeed(rate)
    \/ \E idx \in {i \in 1..Len(operations) : operations[i].type = "speed"} :
          updateOperation(idx, [kind |-> "type", type |-> "volume"])

SpecLinkedSpeed == Init /\ [][NextLinkedSpeed]_vars

\* One clip and the playhead as snap points; a drag is a run of checks ended
\* by clearSnapLine.
SnapTimes == {0, 700, 1500, 1650, 2500, 3400, 3600}
NextSnap ==
    \/ nextId = 1 /\ ImportStart(<<"v">>)
    \/ ImportFinish
    \/ \E t \in {1200} : lastCmd = "loadFiles" /\ setCurrentTime(t)
    \/ \E t \in SnapTimes, pps \in {100, 200}, id \in {NoId, 2} : checkSnap(t, pps, id)
    \/ \E t \in SnapTimes, pps \in {100} : checkMoveSnap(t, 1000, pps, 2)
    \/ clearSnapLine

SpecSnap == Init /\ [][NextSnap]_vars

\* The engine's pure functions over drawn inputs: speed rates in tenths up to
\* above the range of the slider, the tempo compensation 100/percent of every
\* pitch percent, and single-file exports over operation lists and options.
TempoInputs ==
    {Ratio(k, 10) : k \in 1..170} \cup {Ratio(100, p) : p \in 25..400} \cup
    {Ratio(801, 100), Ratio(1, 1000), Ratio(1000, 1)}
TempoCalls == {[fn |-> "buildTempoChain", targetTempo |-> t] : t \in TempoInputs}
ExportOps ==
    {<< [type |-> "trim", enabled |-> te, params |-> [startTime |-> 20000, endTime |-> 80000]],
        [type |-> "speed", enabled |-> se, params |-> [rate |-> 2]],
        [type |-> "volume", enabled |-> ve, params |-> [percent |-> 50]],
        [type |-> "pitch", enabled |-> pe, params |-> [percent |-> 150]] >> :
        te \in BOOLEAN, se \in BOOLEAN, ve \in BOOLEAN, pe \in BOOLEAN}
ExportCalls ==
    {[fn |-> "startExport",
      mediaInfo |-> [duration |-> 100000, hasVideo |-> hv, hasAudio |-> ha,
                     sampleRate |-> 44100, fps |-> 30],
      operations |-> ops,
      exportOptions |-> [quality |-> q, resolution |-> r, format |-> f]] :
        hv \in BOOLEAN, ha \in BOOLEAN, ops \in ExportOps, q \in {"high", "medium", "low"},
        r \in {"original", "720p"}, f \in {"mp4", "webm", "gif", "webp", "mp3"}}
InitEngine == \E call \in TempoCalls \cup ExportCalls : InitWith(call)
NextEngine ==
    \/ BuildTempoChain
    \/ BuildExportCommand

SpecEngine == InitEngine /\ [][NextEngine]_vars

\* A second import whose probes are still awaited while the first clip is
\* moved, trimmed, split, re-timed or deleted.
NextImportEdit ==
    \/ nextId = 1 /\ ImportStart(<<"v">>)
    \/ lastCmd = "loadFiles" /\ Len(clips) = 1 /\ ImportStart(<<"v">>)
    \/ ImportFinish
    \/ \E id \in {2} \cap ClipIds(clips) :
          importJob.pc = "probing" /\ moveClip(id, 1000, Undef, FALSE)
    \/ \E id \in {2} \cap ClipIds(clips) :
          importJob.pc = "probing" /\ trimClipEdge(id, "end", -500, FALSE)
    \/ \E id \in {2} \cap ClipIds(clips) : importJob.pc = "probing" /\ deleteClip(id)
    \/ importJob.pc = "probing" /\ lastCmd = "loadFiles:start" /\ setCurrentTime(1000)
    \/ importJob.pc = "probing" /\ lastCmd = "setCurrentTime" /\ splitClipAtPlayhead
    \/ importJob.pc = "probing" /\ selectedClipId # NoId /\ setSpeed(2)

SpecImportEdit == Init /\ [][NextImportEdit]_vars

\* Two clips selected and merged, with one of them moved, trimmed or
\* re-timed while the render is in flight.
NextMergeEdit ==
    \/ nextId = 1 /\ ImportStart(<<"v", "v">>)
    \/ ImportFinish
    \/ \E id \in {4} \cap ClipIds(clips) : lastCmd = "loadFiles" /\ selectClip(id, "toggle")
    \/ lastCmd = "selectClip" /\ MergeStart
    \/ \E id \in {4} \cap ClipIds(clips) :
          mergeJob.pc = "rendering" /\ moveClip(id, 3000, Undef, FALSE)
    \/ \E id \in {2, 4} \cap ClipIds(clips) :
          /\ mergeJob.pc = "rendering"
          /\ lastCmd \in {"mergeSelectedClips:start", "moveClip"}
          /\ trimClipEdge(id, "end", -500, FALSE)
    \/ mergeJob.pc = "rendering" /\ lastCmd # "setSpeed" /\ setSpeed(2)
    \/ mergeJob.pc = "rendering" /\ lastCmd = "mergeSelectedClips:start" /\ setVolume(50)
    \/ \E outcome \in MergeOutcomes : MergeFinish(outcome)

SpecMergeEdit == Init /\ [][NextMergeEdit]_vars

\* Two linked picture-and-sound pairs dragged between lanes and positions,
\* with a pair unlinked or relinked now and then.
NextGroupShift ==
    \/ nextId = 1 /\ ImportStart(<<"av", "av">>)
    \/ ImportFinish
    \/ \E g \in {4} \cap GroupIds(clips) : toggleGroupLink(g)
    \/ \E id \in {5, 6} \cap ClipIds(clips), st \in {0, 1000} : moveClip(id, st, 0, FALSE)
    \/ \E id \in {5, 6} \cap ClipIds(clips) : moveClip(id, 3000, Undef, FALSE)

SpecGroupShift == Init /\ [][NextGroupShift]_vars

\* One picture-and-sound file whose speed and pitch are set to what the
\* setters accept, the timeline being exportable at any moment.
NextSpeedExport ==
    \/ nextId = 1 /\ ImportStart(<<"av">>)
    \/ ImportFinish
    \/ \E id \in ClipIds(clips) : selectClip(id, "single")
    \/ \E t \in {500, 1000} : setCurrentTime(t)
    \/ \E rate \in {0, 2, 16} : setSpeed(rate)
    \/ \E percent \in {25, 400} : setPitch(percent)

SpecSpeedExport == Init /\ [][NextSpeedExport]_vars

\* Playback to the end of a timeline whose last clip is a video or an audio clip.
\* The frame loop keeps being scheduled while playing, a playing <video> reaches
\* the end of its media and then reports "ended".
PlaybackFiles == {<<"a">>, <<"v">>, <<"v", "a">>, <<"av">>}
PlaybackDeltas == {300, 500}

PlaybackTick == \E d \in PlaybackDeltas, paused \in BOOLEAN, m \in VideoClock : PlayerTick(d, paused, m)

VideoPlaysOn == \E d \in PlaybackDeltas : PlayerTick(d, FALSE, FileDuration)

NextPlayback ==
    \/ nextId = 1 /\ \E files \in PlaybackFiles : ImportStart(files)
    \/ ImportFinish
    \/ togglePlay
    \/ setCurrentTime(700)
    \/ PlaybackTick
    \/ OnEnded

SpecPlayback ==
    Init /\ [][NextPlayback]_vars /\ WF_vars(PlaybackTick) /\ WF_vars(VideoPlaysOn) /\ WF_vars(OnEnded)

\* Two A/V files on two video and two audio lanes; lanes are added and removed
\* while the second pair is dragged to the front.
TrackCountsTried == 3

NextTracks ==
    \/ nextId = 1 /\ ImportStart(<<"av", "av">>)
    \/ ImportFinish
    \/ videoTrackCount < TrackCountsTried /\ addVideoTrack
    \/ removeVideoTrack
    \/ audioTrackCount < TrackCountsTried /\ addAudioTrack
    \/ removeAudioTrack
    \/ \E id \in {5} \cap ClipIds(clips) : moveClip(id, 0, Undef, FALSE)

SpecTracks == Init /\ [][NextTracks]_vars

\* A timeline with one clip, moved and undone, onto which imports are started
\* whose last file cannot be probed.
FailingImports == {<<"v", "bad">>, <<"av", "bad">>}

NextImportFail ==
    \/ nextId = 1 /\ ImportStart(<<"v">>)
    \/ clips # <<>> /\ \E files \in FailingImports : ImportStart(files)
    \/ ImportFinish
    \/ \E id \in {2} \cap ClipIds(clips), st \in {1000, 3000} : moveClip(id, st, Undef, TRUE)
    \/ undo

SpecImportFail == Init /\ [][NextImportFail]_vars

\* An A/V file and a video file whose clips are selected, cut and pasted back
\* at the playhead, the A/V pair linked or not.
NextCut ==
    \/ nextId = 1 /\ ImportStart(<<"av", "v">>)
    \/ ImportFinish
    \/ \E id \in ClipIds(clips), mode \in {"single", "toggle"} : selectClip(id, mode)
    \/ \E t \in {0, 1000} : setCurrentTime(t)
    \/ lastCmd = "loadFiles" /\ \E g \in GroupIds(clips) : toggleGroupLink(g)
    \/ cutSelectedClips
    \/ lastCmd = "cutSelectedClips" /\ pasteCopiedClips

SpecCut == Init /\ [][NextCut]_vars

\* ------------------------------------------------------------ properties
\* two clips of one (track, trackIndex) lane whose visible ranges share more
\* than OVERLAP_EPS
LaneOverlap(cs, obc) ==
    \E i, j \in 1..Len(cs) :
        /\ i < j
        /\ cs[i].track = cs[j].track
        /\ cs[i].trackIndex = cs[j].trackIndex
        /\ \E a \in {getClipTimelineRange(cs[i], obc)}, b \in {getClipTimelineRange(cs[j], obc)} :
              Min2(a.end, b.end) - Max2(a.start, b.start) > OVERLAP_EPS

EditCmds == {"moveClip", "trimClipEdge", "splitClipAtPlayhead", "pasteCopiedClips",
             "deleteClip", "deleteSelectedClips"}

\* C1: a Move, TrimEdge, Split, Paste or Delete that starts from a timeline
\* without lane overlaps ends in a timeline without lane overlaps: no two
\* clips of one (track, trackIndex) lane have intersecting [start, end).
C1_NoLaneOverlap ==
    [][(~LaneOverlap(clips, operationsByClip) /\ lastCmd' \in EditCmds)
          => ~LaneOverlap(clips', operationsByClip')]_vars

\* the stored trim operation of a clip lies inside the clip's trim bound
TrimInsideBound(clip, ops, k) ==
    k # 0 => /\ clip.trimBoundStart <= ops[k].params.startTime
             /\ ops[k].params.startTime <= ops[k].params.endTime
             /\ ops[k].params.endTime <= clip.trimBoundEnd

\* C2: in every reachable state every clip has
\* trimBoundStart <= trim.startTime <= trim.endTime <= trimBoundEnd.
C2_TrimWithinBound ==
    \A i \in 1..Len(clips) :
        \E ops \in {OpsOrEmpty(operationsByClip, clips[i].id)} :
            TrimInsideBound(clips[i], ops, FindOpIdx(ops, "trim", FALSE))

\* undo() then redo() gives back the clips, operations and link flags of state
RoundTrip(state, back) ==
    /\ back.clips = state.clips
    /\ back.operationsByClip = state.operationsByClip
    /\ back.linkedGroups = state.linkedGroups

\* C3 as stated: after any command, in any reachable state, undo followed by
\* redo restores the same clips, operationsByClip and linkedGroups.
C3_UndoRedoAlways ==
    \E state \in {StoreState} : RoundTrip(state, RedoState(UndoState(state)))

\* C3: in every reachable state whose undo stack is not empty, undo followed
\* by redo restores the same clips, operationsByClip and linkedGroups. (With
\* an empty undo stack undo does nothing, and redo replays whatever the redo
\* stack still holds.)
C3_UndoRedo ==
    historyPast # <<>> =>
        \E state \in {StoreState} : RoundTrip(state, RedoState(UndoState(state)))

\* a recorded command ran on a clip, and undo really takes the timeline back
C3_Witness ==
    /\ lastCmd = "moveClip"
    /\ historyPast # <<>>
    /\ clips # <<>>
    /\ UndoState(StoreState).clips # clips

\* C4: every store command that changes clips or operationsByClip (undo, redo
\* and the asynchronous import aside) pushes the snapshot of the state it
\* started from onto the undo stack and empties the redo stack.
C4_MutationsRecorded ==
    [][((clips' # clips \/ operationsByClip' # operationsByClip)
            /\ lastCmd' \notin {"undo", "redo", "loadFiles"})
          => (historyPast' = Append(historyPast, takeSnapshot) /\ historyFuture' = <<>>)]_vars

\* C5: when the merge's render and probe are over and the live selection is
\* no longer the set of clips captured at the start, mergeSelectedClips leaves
\* clips, operationsByClip and both history stacks as they are.
C5_MergeKeepsChangedSelection ==
    [][(mergeJob.pc = "rendering" /\ mergeJob'.pc = "idle"
            /\ SeqToSet(selectedClipIds) # mergeJob.selectedIdSet)
          => UNCHANGED <<clips, operationsByClip, historyPast, historyFuture>>]_vars

\* a merge whose render and probe succeeded found another selection
C5_Witness ==
    /\ lastCmd = "mergeSelectedClips:selectionChanged"
    /\ Len(selectedClipIds) >= 2

\* clip b was cut off clip a, which was orig before the split at playhead t
SplitPair(orig, obcBefore, t, a, b, obcAfter) ==
    /\ orig # NoClip
    /\ getClipVisibleDuration(a, obcAfter) + getClipVisibleDuration(b, obcAfter)
          = getClipVisibleDuration(orig, obcBefore)
    /\ a.trimBoundStart = orig.trimBoundStart
    /\ a.trimBoundEnd = timelineTimeToMediaTime(orig, obcBefore, t)
    /\ b.trimBoundStart = a.trimBoundEnd
    /\ b.trimBoundEnd = orig.trimBoundEnd

\* C6: a split puts clip B right after clip A; their visible durations sum to
\* the original's, A's trim bound is [original bound start, split point] and
\* B's is [split point, original bound end].
C6_SplitConserves ==
    [][lastCmd' = "splitClipAtPlayhead" =>
          \A i \in 1..Len(clips') :
              clips'[i].id \notin ClipIds(clips) =>
                  /\ i > 1
                  /\ SplitPair(FindClip(clips, clips'[i - 1].id), operationsByClip,
                               currentTime, clips'[i - 1], clips'[i], operationsByClip')]_vars

\* a piece that was itself cut off a clip has been split again
C6_Witness ==
    /\ lastCmd = "splitClipAtPlayhead"
    /\ \E i \in 1..Len(clips) :
          /\ clips[i].trimBoundStart > 0
          /\ clips[i].trimBoundEnd < clips[i].duration

\* C7: after every command that changes clips or operations,
\* 0 <= currentTime <= timelineDuration.
C7_TimeInsideTimeline ==
    [][(clips' # clips \/ operationsByClip' # operationsByClip)
          => (0 <= currentTime' /\ currentTime' <= timelineDuration')]_vars

\* C8: a render job that exits non-zero makes its export-start request return
\* success = false.
C8_FailedRenderAnswersFailure ==
    \A j \in 1..Len(exportJobs) :
        exportJobs[j].proc = "exitNonZero" => (exportJobs[j].answered /\ ~exportJobs[j].success)

\* C9: right after cancelExport no export job is still running, however many
\* were in flight when it was called.
C9_CancelStopsEveryJob ==
    lastCmd = "export:cancel" => \A j \in 1..Len(exportJobs) : exportJobs[j].proc # "running"

PlayerCmds == {"player:tick", "player:loadedmetadata", "player:ended"}

OnlyActiveReprobed(active) ==
    /\ Len(clips') = Len(clips)
    /\ \A i \in 1..Len(clips) :
          /\ clips'[i].id = clips[i].id
          /\ (active = NoClip \/ clips[i].id # active.id) =>
                /\ clips'[i].duration = clips[i].duration
                /\ clips'[i].trimBoundStart = clips[i].trimBoundStart
                /\ clips'[i].trimBoundEnd = clips[i].trimBoundEnd
                /\ OpsOrEmpty(operationsByClip', clips[i].id)
                      = OpsOrEmpty(operationsByClip, clips[i].id)

Composition(g) ==
    {clips[i].track : i \in {k \in 1..Len(clips) :
                                clips[k].groupId = g /\ clips[k].id \in SeqToSet(selectedClipIds)}}

SelectedGroups ==
    {clips[i].groupId : i \in {k \in 1..Len(clips) : clips[k].id \in SeqToSet(selectedClipIds)}}

\* the selection mixes groups of different track make-up, or is under two groups
NotMergeable ==
    \/ Cardinality(SelectedGroups) < 2
    \/ \E g, h \in SelectedGroups : Composition(g) # Composition(h)

MergeCallCmds == {"mergeSelectedClips:disabled", "mergeSelectedClips:noStreams",
                  "mergeSelectedClips:start"}

\* C11: called on a selection that is not uniform in track composition, or
\* that holds fewer than two logical groups, mergeSelectedClips reports a
\* disabled reason, starts no render, and leaves clips, operationsByClip, the
\* selection and both history stacks unchanged.
C11_DisabledMergeChangesNothing ==
    [][(mergeJob.pc = "idle" /\ lastCmd' \in MergeCallCmds /\ NotMergeable)
          => /\ lastCmd' = "mergeSelectedClips:disabled"
             /\ mergeJob'.pc = "idle"
             /\ UNCHANGED <<clips, operationsByClip, selectedClipId, selectedClipIds,
                            lastSelectedClipId, historyPast, historyFuture>>]_vars

\* merge was refused for a video-only group selected with a complete A/V group
C11_Witness ==
    /\ lastCmd = "mergeSelectedClips:disabled"
    /\ \E g, h \in SelectedGroups :
          Composition(g) = {"video"} /\ Composition(h) = {"video", "audio"}

\* the groups made of exactly one video clip and one audio clip, linked
LinkedAVGroups ==
    {g \in GroupIds(clips) :
        /\ IsLinked(linkedGroups, g)
        /\ Cardinality({i \in 1..Len(clips) : clips[i].groupId = g}) = 2
        /\ \E i, j \in 1..Len(clips) :
              /\ clips[i].groupId = g /\ clips[i].track = "video"
              /\ clips[j].groupId = g /\ clips[j].track = "audio"}

\* C12: trimming the start edge of the video clip of a linked video + audio
\* group shifts the startTime of both clips by the same timeline delta. (The
\* specification it is checked under trims only start edges of video clips.)
C12_LinkedStartTrimShiftsBoth ==
    [][lastCmd' = "trimClipEdge" =>
          \A i, j \in 1..Len(clips) :
              (/\ clips[i].groupId \in LinkedAVGroups
               /\ clips[j].groupId = clips[i].groupId
               /\ clips[i].track = "video" /\ clips[j].track = "audio")
              => clips'[i].startTime - clips[i].startTime
                    = clips'[j].startTime - clips[j].startTime]_vars

\* the selected clips and the clips of their linked groups
SelectedAndSiblings ==
    {i \in 1..Len(clips) :
        \/ clips[i].id \in SeqToSet(selectedClipIds)
        \/ \E k \in 1..Len(clips) :
              /\ clips[k].id \in SeqToSet(selectedClipIds)
              /\ clips[k].groupId = clips[i].groupId
              /\ IsLinked(linkedGroups, clips[k].groupId)}

\* C13: when a clip of a multi-selection is moved, every selected clip and
\* every linked sibling of a selected clip ends with its startTime shifted by
\* the same delta as the dragged clip (itself one of the selected clips, so
\* all of them shift alike).
C13_MultiMoveShiftsAlike ==
    [][(lastCmd' = "moveClip" /\ Len(selectedClipIds) > 1) =>
          \A i, j \in SelectedAndSiblings :
              clips'[i].startTime - clips[i].startTime
                 = clips'[j].startTime - clips[j].startTime]_vars

\* C14: deleteClip and deleteSelectedClips leave the startTime and the
\* trackIndex of every clip that remains unchanged.
C14_DeleteKeepsPositions ==
    [][lastCmd' \in {"deleteClip", "deleteSelectedClips"} =>
          \A i \in 1..Len(clips') :
              \E old \in {FindClip(clips, clips'[i].id)} :
                  /\ old # NoClip
                  /\ clips'[i].startTime = old.startTime
                  /\ clips'[i].trackIndex = old.trackIndex]_vars

\* the clip of the pre-split timeline that clips'[i] is a half of
SplitSource(i) ==
    IF clips'[i].id \in ClipIds(clips) THEN FindClip(clips, clips'[i].id)
    ELSE IF i > 1 THEN FindClip(clips, clips'[i - 1].id)
    ELSE NoClip

\* C15: after a split both new groups, the A half's and the B half's, carry
\* the linked flag of the original group; a group unlinked before the split
\* is unlinked in both halves.
C15_SplitInheritsLink ==
    [][lastCmd' = "splitClipAtPlayhead" =>
          \A i \in 1..Len(clips') :
              clips'[i].groupId \notin GroupIds(clips) =>
                  /\ SplitSource(i) # NoClip
                  /\ IsLinked(linkedGroups', clips'[i].groupId)
                        = IsLinked(linkedGroups, SplitSource(i).groupId)]_vars

\* C16: Move, TrimEdge and Delete called with a clip id that does not exist
\* leave the whole store unchanged, the undo and redo stacks included. (The
\* specification it is checked under calls the three with a missing id only.)
C16_MissingIdIsNoOp ==
    [][lastCmd' \in {"moveClip", "trimClipEdge", "deleteClip"} => UNCHANGED storeVars]_vars

\* the clip pasteCopiedClips made from the i-th clipboard clip: the new selection lists
\* the pasted ids in clipboard order
PastedClip(i) == FindClip(clips', selectedClipIds'[i])

\* C17: pasteCopiedClips gives every pasted clip an id no timeline or clipboard clip
\* has and no other pasted clip has, gives two pasted clips the same groupId exactly
\* when their clipboard sources had the same groupId, and gives no pasted clip the
\* groupId of a clip that was already on the timeline.
C17_PasteRemapsGroups ==
    [][(lastCmd' = "pasteCopiedClips" /\ clipboard.clips # <<>>)
          => /\ Len(selectedClipIds') = Len(clipboard.clips)
             /\ \A i \in 1..Len(clipboard.clips) :
                   /\ PastedClip(i) # NoClip
                   /\ PastedClip(i).id \notin ClipIds(clips) \cup ClipIds(clipboard.clips)
                   /\ PastedClip(i).groupId \notin GroupIds(clips)
             /\ \A i, j \in 1..Len(clipboard.clips) :
                   /\ (i # j) => PastedClip(i).id # PastedClip(j).id
                   /\ (PastedClip(i).groupId = PastedClip(j).groupId)
                         <=> (clipboard.clips[i].groupId = clipboard.clips[j].groupId)]_vars

\* a paste of one whole group and one clip of another has just happened beside its sources
C17_Witness ==
    /\ lastCmd = "pasteCopiedClips"
    /\ Len(selectedClipIds) = 2
    /\ Len(clipboard.clips) = 2
    /\ ClipIds(clipboard.clips) \subseteq ClipIds(clips)
    /\ \E i, j \in 1..Len(clips) :
          /\ clips[i].id = selectedClipIds[1] /\ clips[j].id = selectedClipIds[2]
          /\ clips[i].groupId # clips[j].groupId
          /\ {clips[i].groupId, clips[j].groupId} \cap
                {clipboard.clips[k].groupId : k \in 1..2} = {}

\* timeline times of a clip's range at which the conversions are compared: both
\* ends of [start, end) and every SampleStep-th tick between them
SampleStep == 50
SampleTimes(r) ==
    {t \in r.start..(r.end - 1) : t = r.start \/ t = r.end - 1 \/ (t - r.start) % SampleStep = 0}

TimeRoundTrip(clip, obc, t) ==
    mediaTimeToTimelineTime(clip, obc, timelineTimeToMediaTime(clip, obc, t)) = t

\* C18: for every clip and every timeline time t in [start, end) of its range,
\* converting t to media time and back to timeline time returns t.
C18_TimeRoundTrip ==
    \A i \in 1..Len(clips) :
        \A t \in SampleTimes(getClipTimelineRange(clips[i], operationsByClip)) :
            TimeRoundTrip(clips[i], operationsByClip, t)

\* a clip at double speed, placed after time 0, whose stored trim is cut down by its
\* trim bound and whose range is not empty
C18_Witness ==
    \E i \in 1..Len(clips) :
        \E r \in {getClipTimelineRange(clips[i], operationsByClip)} :
            /\ r.speedRate = 2
            /\ r.start > 0
            /\ r.trimStart > 0
            /\ r.end > r.start + 1
            /\ getTrimParams(clips[i].duration, OpsOrEmpty(operationsByClip, clips[i].id)).trimStart
                  < r.trimStart

\* C19: whatever trim the store holds for a clip, the clip's resolved range has
\* trimBoundStart <= trimStart <= trimEnd <= trimBoundEnd.
C19_RangeInsideBound ==
    \A i \in 1..Len(clips) :
        \E r \in {getClipTimelineRange(clips[i], operationsByClip)} :
            /\ clips[i].trimBoundStart <= r.trimStart
            /\ r.trimStart <= r.trimEnd
            /\ r.trimEnd <= clips[i].trimBoundEnd

\* a patch has just stored, on the second half of a split clip, a trim that starts
\* past the end of the clip's trim bound and ends before the bound begins
C19_Witness ==
    /\ lastCmd = "updateOperation"
    /\ \E i \in 1..Len(clips) :
          \E ops \in {OpsOrEmpty(operationsByClip, clips[i].id)} :
          \E k \in {FindOpIdx(ops, "trim", TRUE)} :
             /\ k # 0
             /\ clips[i].trimBoundStart > 0
             /\ ops[k].params.startTime > clips[i].trimBoundEnd
             /\ ops[k].params.endTime < clips[i].trimBoundStart

\* C20: in every reachable state the stored timelineDuration is the largest
\* startTime + visible duration over the clips, and 0 when there is no clip.
C20_TimelineDurationStored ==
    timelineDuration = getTimelineDuration(clips, operationsByClip)

\* C21: in every reachable state every clip has startTime >= 0.
C21_StartTimeNotNegative ==
    \A i \in 1..Len(clips) : clips[i].startTime >= 0

\* a start trim has just acted on a clip that lies at time 0 with part of its media
\* still trimmed away, so that pulling its start edge further left computes a
\* negative startTime before the overlap resolver runs
C21_Witness ==
    /\ lastCmd = "trimClipEdge"
    /\ \E i \in 1..Len(clips) :
          /\ clips[i].startTime = 0
          /\ getClipTimelineRange(clips[i], operationsByClip).trimStart > 0
          /\ TrimTarget(clips[i], operationsByClip, "start", -500).startTime < 0

\* the operation list holds exactly one operation of each of the four types
OneOfEachType(ops) ==
    \A t \in OpTypes : Cardinality({k \in 1..Len(ops) : ops[k].type = t}) = 1

\* C22: in every reachable state every clip on the timeline has an operation list
\* with exactly one operation of each of the types trim, speed, volume and pitch.
C22_OneOperationOfEachType ==
    \A i \in 1..Len(clips) :
        /\ clips[i].id \in DOMAIN operationsByClip
        /\ OneOfEachType(operationsByClip[clips[i].id])

\* the stored parameters of one operation lie in the documented range of its type:
\* rate in [0.1, 16], volume percent in [0, 1000], pitch percent in [25, 400]
ParamsInRange(op) ==
    /\ op.type = "speed" => (10 * op.params.rate >= 1 /\ op.params.rate <= 16)
    /\ op.type = "volume" => (op.params.percent >= 0 /\ op.params.percent <= 1000)
    /\ op.type = "pitch" => (op.params.percent >= 25 /\ op.params.percent <= 400)

\* C23: in every reachable state every stored speed rate lies in [0.1, 16], every
\* stored volume percent in [0, 1000] and every stored pitch percent in [25, 400].
C23_StoredParamsInRange ==
    \A id \in DOMAIN operationsByClip :
        \A k \in 1..Len(operationsByClip[id]) : ParamsInRange(operationsByClip[id][k])

\* the rate and enabled flag of the speed operations in an operation list
SpeedSettings(ops) ==
    {[rate |-> ops[k].params.rate, enabled |-> ops[k].enabled] :
        k \in {n \in 1..Len(ops) : ops[n].type = "speed"}}

\* C24: after setSpeed on a selected clip whose group is linked, every clip of that
\* group has the same speed rate and the same speed enabled flag.
C24_LinkedSpeedLocked ==
    [][(lastCmd' = "setSpeed" /\ FindClip(clips, selectedClipId) # NoClip
          /\ IsLinked(linkedGroups, FindClip(clips, selectedClipId).groupId))
          => \A i, j \in 1..Len(clips') :
                (clips'[i].groupId = FindClip(clips, selectedClipId).groupId
                   /\ clips'[j].groupId = clips'[i].groupId)
                => SpeedSettings(OpsOrEmpty(operationsByClip', clips'[i].id))
                      = SpeedSettings(OpsOrEmpty(operationsByClip', clips'[j].id))]_vars

\* ---- C25
\* the distance of the dragged time of a check to a point: for a move check
\* the nearer of the clip's two edges
DraggedDistance(r, point) ==
    Min2(Abs(r.argTime - point), Abs(r.argTime + r.argDuration - point))

SnapChecks == {"checkSnap", "checkMoveSnap"}

\* 15 px converted to ticks at the zoom factor of a check
ExitDistance(r) == (15 * 10000) \div r.pixelsPerSecond

\* C25: once a snap check has snapped the drag to a point, every later snap
\* check of the same drag whose dragged time is no farther from that point
\* than the exit threshold (15 px converted to seconds) returns a snapped
\* result; the point is the one the drag is snapped to when the check runs.
C25_SnapHeldUntilExit ==
    [][(/\ snapResult.call \in SnapChecks
        /\ snapResult.snapped
        /\ lastCmd' \in SnapChecks
        /\ DraggedDistance(snapResult', snapResult.point) <= ExitDistance(snapResult'))
       => snapResult'.snapped]_vars

\* a check answered by the held point alone: the dragged time is between the
\* enter and the exit threshold away from it
C25_Witness ==
    /\ snapResult.call \in SnapChecks
    /\ snapResult.snapped
    /\ DraggedDistance(snapResult, snapResult.point) >= (10 * 10000) \div snapResult.pixelsPerSecond
    /\ DraggedDistance(snapResult, snapResult.point) <= ExitDistance(snapResult)
    /\ lockedSnapTime = snapResult.point

\* ---- C26
TempoChainBuilt == engineInput.fn = "buildTempoChain" /\ lastCmd = "buildTempoChain"

\* the product of the stages of a chain, as an exact fraction
RECURSIVE ChainProduct(_)
ChainProduct(chain) ==
    IF chain = <<>> THEN Ratio(1, 1)
    ELSE With(ChainProduct(Tail(chain)), LAMBDA rest :
            With(Ratio(Head(chain), 10000), LAMBDA stage :
                Ratio(stage.num * rest.num, stage.den * rest.den)))

StagesInRange(chain) == \A s \in 1..Len(chain) : chain[s] >= 5000 /\ chain[s] <= 20000

\* C26: for every positive tempo, every stage of the tempo chain lies within
\* [0.5, 2.0] and the product of the stages equals the requested tempo.
C26_TempoChainExact ==
    TempoChainBuilt =>
        /\ StagesInRange(engineOutput)
        /\ ChainProduct(engineOutput) = engineInput.targetTempo

\* ---- C27
\* the number of stages of a chain with a given value
StageCount(chain, value) == Cardinality({s \in 1..Len(chain) : chain[s] = value})

\* C27 as stated: for a speed rate of 16.0 the chain is two 2.0x stages plus
\* one 4.0x stage, each stage within [0.5, 2.0].
C27_SixteenIsTwoTwoFour ==
    (TempoChainBuilt /\ engineInput.targetTempo = Ratio(16, 1)) =>
        /\ Len(engineOutput) = 3
        /\ StageCount(engineOutput, 20000) = 2
        /\ StageCount(engineOutput, 40000) = 1
        /\ StagesInRange(engineOutput)

\* C27 amended: for a speed rate of 16.0 the chain is exactly four 2.0x
\* stages (16 = 2 x 2 x 2 x 2), each stage within [0.5, 2.0].
C27_SixteenIsFourTwos ==
    (TempoChainBuilt /\ engineInput.targetTempo = Ratio(16, 1)) =>
        /\ Len(engineOutput) = 4
        /\ StageCount(engineOutput, 20000) = 4
        /\ StagesInRange(engineOutput)
        /\ ChainProduct(engineOutput) = Ratio(16, 1)

C27_Witness ==
    /\ TempoChainBuilt
    /\ engineInput.targetTempo = Ratio(16, 1)
    /\ engineOutput # <<>>

\* ---- C28
\* the export of the example: one 10 s file with picture and sound,
\* Trim{2, 8} and Speed{2.0} enabled, quality medium, mp4, 720p
ExampleExportBuilt ==
    /\ engineInput.fn = "startExport"
    /\ lastCmd = "startExport"
    /\ engineInput.mediaInfo.duration = 100000
    /\ engineInput.mediaInfo.hasVideo
    /\ engineInput.mediaInfo.hasAudio
    /\ \A i \in 1..Len(engineInput.operations) :
          engineInput.operations[i].enabled <=> engineInput.operations[i].type \in {"trim", "speed"}
    /\ engineInput.exportOptions = [quality |-> "medium", resolution |-> "720p", format |-> "mp4"]

HasNumberArg(args, opt, num) == \E i \in 1..Len(args) : args[i].opt = opt /\ args[i].num = num
HasTextArg(args, opt, text) == \E i \in 1..Len(args) : args[i].opt = opt /\ args[i].text = text
HasFilter(args, opt, filter) ==
    \E i \in 1..Len(args) : args[i].opt = opt /\ filter \in SeqToSet(args[i].filters)

\* what the example's command holds apart from its duration limit
ExampleCommandBasics(args) ==
    /\ HasFilter(args, "-vf", Filter("scale", 1280, 720))
    /\ HasNumberArg(args, "-crf", 23)
    /\ HasNumberArg(args, "-ss", 2000)
    /\ HasTextArg(args, "-c:v", "libx264")
    /\ HasTextArg(args, "-c:a", "aac")

\* C28: the command built for the example contains a scale filter to
\* 1280x720, a CRF of 23, an input seek of 2.0 s, a duration limit of 3.0 s,
\* and H.264 video with AAC audio.
C28_ExampleExportCommand ==
    ExampleExportBuilt =>
        /\ ExampleCommandBasics(engineOutput)
        /\ HasNumberArg(engineOutput, "-t", 3000)

\* what the code builds instead: the limit is the trimmed length, 6.0 s
C28_LimitIsTrimmedLength ==
    ExampleExportBuilt =>
        /\ ExampleCommandBasics(engineOutput)
        /\ HasNumberArg(engineOutput, "-t", 6000)
        /\ ~HasNumberArg(engineOutput, "-t", 3000)

\* ---- C29
\* C29: an edit command that commits while an import awaits its probes is
\* still reflected after the import completes: the completed import keeps
\* every clip, operation list and link flag as the edits left them, brings
\* back no clip they removed, and keeps their undo entries.
C29_ImportKeepsEdits ==
    [][(importJob.pc = "probing" /\ lastCmd' = "loadFiles") =>
          /\ \A i \in 1..Len(clips) : clips[i] \in SeqToSet(clips')
          /\ \A j \in 1..Len(clips') :
                clips'[j].id \in ClipIds(clips) \/ clips'[j].id >= nextId
          /\ \A id \in DOMAIN operationsByClip :
                id \in DOMAIN operationsByClip' /\ operationsByClip'[id] = operationsByClip[id]
          /\ \A g \in DOMAIN linkedGroups :
                g \in DOMAIN linkedGroups' /\ linkedGroups'[g] = linkedGroups[g]
          /\ Len(historyPast') > Len(historyPast)
          /\ SubSeq(historyPast', 1, Len(historyPast)) = historyPast]_vars

\* ---- C30
\* a clip of the merge's selection is no longer as the render read it
EditedSinceMergeStart ==
    \E i \in 1..Len(mergeJob.selectedClips) :
        With(mergeJob.selectedClips[i], LAMBDA was :
            \/ FindClip(clips, was.id) # was
            \/ OpsOrEmpty(operationsByClip, was.id) # mergeJob.normalizedOpsByClip[was.id])

\* C30: when a selected clip was moved, trimmed or had an operation changed
\* while the merge render was in flight, and the selection is what it was,
\* the completing merge does not replace the selected clips.
C30_MergeKeepsEditedClips ==
    [][(/\ mergeJob.pc = "rendering"
        /\ mergeJob' = NoJob
        /\ SeqToSet(selectedClipIds) = mergeJob.selectedIdSet
        /\ EditedSinceMergeStart)
       => mergeJob.selectedIdSet \cap ClipIds(clips) \subseteq ClipIds(clips')]_vars

\* ---- C31
\* the drags the timeline offers from a state: a clip, a start and a lane
DragCalls ==
    {[id |-> clips[i].id, start |-> st, track |-> track] :
        i \in 1..Len(clips), st \in {0, 500, 1000, 3000}, track \in {Undef, 0}}

\* the resolver run that moveClip makes for a drag
DragResolution(call) ==
    With(MoveInput(FindClip(clips, call.id), call.start, call.track), LAMBDA input :
        ResolveDetail(input.clips, operationsByClip, input.activeClipIds, linkedGroups))

EntryDelta(e) == e.start - e.originalStart

\* the members the resolution moved were all moved by one delta
MovedMembersShiftedAlike(entries) ==
    \A i \in 1..Len(entries), j \in 1..Len(entries) :
        (/\ entries[i].linked
         /\ entries[i].groupId = entries[j].groupId
         /\ EntryDelta(entries[i]) # 0
         /\ EntryDelta(entries[j]) # 0)
        => EntryDelta(entries[j]) = EntryDelta(entries[i])

\* C31: after overlap resolution, the members of a linked group that the
\* resolution moved have all been shifted by one and the same delta from
\* their positions before the resolution.
C31_LinkedGroupOneDelta ==
    \A call \in DragCalls : MovedMembersShiftedAlike(DragResolution(call).entries)

\* ---- C32
\* C32: for every lane the store commands can reach, the per-lane resolver
\* leaves its loop because a sort+scan pass changed nothing, not because the
\* n^2 + 8 passes ran out; the resolver runs are those of the drags offered
\* from each reachable state.
C32_ResolverReachesFixedPoint ==
    \A call \in DragCalls : ~DragResolution(call).capped

\* ---- C33
\* C33: building the export command terminates for every timeline the store
\* can hold: the tempo chain loop ends for every Speed rate that setSpeed can
\* store and for every pitch compensation factor.
C33_TempoChainTerminates ==
    \A tempo \in TimelineTempoRequests(clips, operationsByClip) :
        TempoLoopEnds(tempo, MaxTempoPasses)

\* the same for the pitch compensation factors alone
C33_CompensationTerminates ==
    \A tempo \in TimelineTempoRequests(clips, operationsByClip) :
        tempo.num # 0 => TempoLoopEnds(tempo, MaxTempoPasses)


\* the clip whose timeline range ends last, preferring the video clip under the end
LastClipTrack == With(findClipAtTime(SafeEnd), LAMBDA c : IF c = NoClip THEN "none" ELSE c.track)

\* the steps of the player itself: the frame loop and the <video> element's event
PlayerSteps == {"player:tick", "player:ended"}

\* C34: once playback runs on a non-empty timeline and from some point on only
\* the frame loop and the <video> element act (no further user input), playing
\* becomes false and stays false, whichever kind of clip is last
C34_PlaybackEventuallyStops ==
    <>[](lastCmd \in PlayerSteps /\ clips # <<>>) => <>[](~playing)

\* C34 for a timeline that ends under a video clip
C34_VideoLastPlaybackStops ==
    <>[](lastCmd \in PlayerSteps /\ LastClipTrack = "video") => <>[](~playing)


RemoveTrackCmds == {"removeVideoTrack", "removeAudioTrack"}

\* C35: removing a video or audio track from a timeline without lane overlaps
\* leaves a timeline without lane overlaps
C35_RemoveTrackKeepsLanesFree ==
    [][(~LaneOverlap(clips, operationsByClip) /\ lastCmd' \in RemoveTrackCmds)
          => ~LaneOverlap(clips', operationsByClip')]_vars

TrackCountOf(track) == IF track = "video" THEN videoTrackCount ELSE audioTrackCount

\* C36: every clip's trackIndex is at least 0 and below the track count of its
\* track type
C36_TrackIndexInRange ==
    \A i \in 1..Len(clips) :
        clips[i].trackIndex >= 0 /\ clips[i].trackIndex < TrackCountOf(clips[i].track)


\* loadFiles is awaiting probes and one of its files cannot be probed
ImportWillFail ==
    /\ importJob.pc = "probing"
    /\ \E i \in 1..Len(importJob.files) : importJob.files[i] = "bad"

\* C37: when the probe of any file of an import fails, the step that ends the
\* import leaves clips, operationsByClip, linkedGroups and the undo and redo
\* stacks as they are, also when earlier files of the import were probed
C37_FailedImportAddsNothing ==
    [][(ImportWillFail /\ importJob'.pc = "idle")
          => UNCHANGED <<clips, operationsByClip, linkedGroups, historyPast, historyFuture>>]_vars

\* an import whose second file failed has ended on a timeline with a redo stack
C37_Witness ==
    lastCmd = "loadFiles:failed" /\ clips # <<>> /\ historyFuture # <<>>


\* C39: after Cut the clipboard holds every clip that Cut removed from the
\* timeline
C39_CutCopiesWhatItRemoves ==
    [][lastCmd' = "cutSelectedClips"
          => (ClipIds(clips) \ ClipIds(clips')) \subseteq ClipIds(clipboard'.clips)]_vars

\* C39: a Paste that follows a Cut adds as many clips as the Cut removed
C39_PasteRestoresCutCount ==
    [][(lastCmd = "cutSelectedClips" /\ lastCmd' = "pasteCopiedClips" /\ historyPast # <<>>)
          => Len(clips') = Len(historyPast[Len(historyPast)].clips)]_vars


\* the clip list back to front
ReversedClips(cs) == [i \in 1..Len(cs) |-> cs[Len(cs) + 1 - i]]

\* clip id -> resolved startTime
PlacementOf(cs) == [id \in ClipIds(cs) |-> FindClip(cs, id).startTime]

ResolvedPlacement(cs, activeClipIds) ==
    PlacementOf(resolveClipOverlaps(cs, operationsByClip, activeClipIds, linkedGroups))

\* C38: the placement the resolver produces for a drag is the same when the
\* clip list it is handed lists the same clips in another order
C38_PlacementIgnoresListOrder ==
    \A call \in DragCalls :
        With(MoveInput(FindClip(clips, call.id), call.start, call.track), LAMBDA input :
            ResolvedPlacement(input.clips, input.activeClipIds)
                = ResolvedPlacement(ReversedClips(input.clips), input.activeClipIds))

====
